---- MODULE Spec2Model ----
(***************************************************************************)
(* Broly: WhatsApp reminder bot.                                           *)
(*   - the /whatsapp webhook handler        (src/src/index.ts, 240-873)    *)
(*   - the cron scheduler tick              (src/unnamed/part_003, 101-243)*)
(*                                                                         *)
(* Text is modelled at word level: a message is a sequence of words that   *)
(* were separated by whitespace; a raw body also says whether it carries   *)
(* surrounding whitespace.  Instants are integers counted in units of      *)
(* 1/UnitsPerMinute minute from 2025-04-30 00:00 local time.               *)
(***************************************************************************)
EXTENDS Integers, Sequences, FiniteSets, TLC

\* ----------------------------------------------------------------- bounds
UnitsPerMinute == 2
MaxDay == 1
MonthJump == 30
MaxReminders == 2
MaxRecurring == 1
MaxAttempts == 2
MaxMessages == 3

\* ------------------------------------------------------------------ time
MinutesPerDay == 24 * 60
DayUnits == MinutesPerDay * UnitsPerMinute
NoTime == 0 - 1
WindowStart == 9 * 60
WindowEnd == 9 * 60 + 1
LastDay == MonthJump + MaxDay + 2

EpochDate == [y |-> 2025, m |-> 4, d |-> 30]

IsLeap(y) == (y % 4 = 0 /\ y % 100 # 0) \/ y % 400 = 0

DaysInMonth(y, m) ==
  IF m = 2 THEN (IF IsLeap(y) THEN 29 ELSE 28)
  ELSE IF m \in {4, 6, 9, 11} THEN 30 ELSE 31

NextDate(dt) ==
  IF dt.d < DaysInMonth(dt.y, dt.m) THEN [dt EXCEPT !.d = dt.d + 1]
  ELSE IF dt.m < 12 THEN [y |-> dt.y, m |-> dt.m + 1, d |-> 1]
  ELSE [y |-> dt.y + 1, m |-> 1, d |-> 1]

RECURSIVE Dates(_)
Dates(n) ==
  IF n = 0 THEN <<EpochDate>>
  ELSE LET before == Dates(n - 1) IN Append(before, NextDate(before[n]))

\* the calendar date of each day of the modelled period, day 0 first
DateTable == Dates(LastDay)
DateOf(day) == DateTable[day + 1]

DayIndex(t) == t \div DayUnits
MinuteOfDay(t) == (t % DayUnits) \div UnitsPerMinute
At(day, minute) == day * DayUnits + minute * UnitsPerMinute

getFullYear(t) == DateOf(DayIndex(t)).y
getMonth(t) == DateOf(DayIndex(t)).m - 1
getDate(t) == DateOf(DayIndex(t)).d
getHours(t) == MinuteOfDay(t) \div 60
getMinutes(t) == MinuteOfDay(t) % 60

\* "HH:mm": two zero-padded fields, so two strings are equal exactly when
\* the (hour, minute) pairs are.
getCurrentTimeString(t) == <<getHours(t), getMinutes(t)>>

\* variant: the same instant instead of the same calendar day
isSameDay_Instant(a, b) == a = b

isSameDay(a, b) ==
  /\ getFullYear(a) = getFullYear(b)
  /\ getMonth(a) = getMonth(b)
  /\ getDate(a) = getDate(b)

isSameYearMonth(a, b) ==
  getFullYear(a) = getFullYear(b) /\ getMonth(a) = getMonth(b)

weatherTime == <<9, 0>>

\* ------------------------------------------------------------------ text
Addresses == {"a1", "a2"}

LowerTable ==
  [w \in {"Hello", "Pune", "Mom", "PM", "In"} |->
     CASE w = "Hello" -> "hello"
       [] w = "Pune" -> "pune"
       [] w = "Mom" -> "mom"
       [] w = "PM" -> "pm"
       [] w = "In" -> "in"]

ToLowerWord(w) == IF w \in DOMAIN LowerTable THEN LowerTable[w] ELSE w
toLowerCase(ws) == [i \in 1..Len(ws) |-> ToLowerWord(ws[i])]

\* String.prototype.trim: drops the surrounding whitespace.
trim(raw) == raw.words

\* lower.split(/\s+/): the empty string splits into one empty token.
Tokens(lower) == IF lower = <<>> THEN <<"">> ELSE lower

\* Number(word) / parseInt(word, 10) for the words of the vocabulary;
\* NaN is NoTime.
NumberTable ==
  [w \in {"0", "1", "2", "5", "10"} |->
     CASE w = "0" -> 0 [] w = "1" -> 1 [] w = "2" -> 2
       [] w = "5" -> 5 [] w = "10" -> 10]

IsDigits(w) == w \in DOMAIN NumberTable
NumberOf(w) == IF IsDigits(w) THEN NumberTable[w] ELSE NoTime

SubSeqFrom(ws, i) == SubSeq(ws, i, Len(ws))

\* ------------------------------------------------- command classification
isGreeting_HiOnly(lower) == lower = <<"hi">>

isGreeting(lower) == lower \in {<<"hi">>, <<"hello">>, <<"hey">>}
isHelp(lower) == lower \in {<<"help">>, <<"menu">>}
isList(lower) == lower \in {<<"list">>, <<"list", "reminders">>}

\* lower.includes("remind"): the words of the vocabulary holding "remind".
RemindWords == {"remind", "reminder"}
looksLikeReminderSentence(lower) ==
  \E i \in 1..Len(lower) : lower[i] \in RemindWords

\* /^cancel\s+recurring\s+(\d+)\b/
cancelRecurringMatch(lower) ==
  /\ Len(lower) >= 3
  /\ lower[1] = "cancel"
  /\ lower[2] = "recurring"
  /\ IsDigits(lower[3])

\* /^cancel\s+(\d+)\b/
cancelOneTimeMatch(lower) ==
  /\ Len(lower) >= 2
  /\ lower[1] = "cancel"
  /\ IsDigits(lower[2])

\* /^\s*subscribe\s+weather\s+(.+)$/i on the trimmed text
subscribeWeatherWithCityMatch(text) ==
  /\ Len(text) >= 3
  /\ ToLowerWord(text[1]) = "subscribe"
  /\ ToLowerWord(text[2]) = "weather"

\* match[1].trim(): the city keeps the case of the text
CityOf(text) == SubSeqFrom(text, 3)

\* /^\s*subscribe\s+weather\s*$/i
isSubscribeWeatherBare(text) == toLowerCase(text) = <<"subscribe", "weather">>

cancelWeather(lower) ==
  lower \in {<<"cancel", "weather">>, <<"unsubscribe", "weather">>}

recursMonthly(lower) ==
  \/ \E i \in 1..Len(lower) : lower[i] = "monthly"
  \/ \E i \in 1..(Len(lower) - 1) :
       lower[i] \in {"every", "each"} /\ lower[i + 1] = "month"

recursDaily(lower) ==
  \/ \E i \in 1..Len(lower) : lower[i] \in {"daily", "everyday"}
  \/ \E i \in 1..(Len(lower) - 1) : lower[i] = "every" /\ lower[i + 1] = "day"

\* ---------------------------------------------------------------- snooze
SNOOZE_UNIT_MAP ==
  [w \in {"min", "mins", "minute", "minutes", "m",
          "h", "hr", "hrs", "hour", "hours"} |->
     IF w \in {"min", "mins", "minute", "minutes", "m"} THEN "minute" ELSE "hour"]

NoSnooze == [ok |-> FALSE, offset |-> 0]

\* offsetMs is kept in clock units
parseSnoozeArgs(tokens) ==
  IF Len(tokens) < 2 THEN NoSnooze
  ELSE IF NumberOf(tokens[1]) <= 0 THEN NoSnooze
  ELSE IF Len(tokens) # 2 \/ tokens[2] \notin DOMAIN SNOOZE_UNIT_MAP THEN NoSnooze
  ELSE [ok |-> TRUE,
        offset |-> (IF SNOOZE_UNIT_MAP[tokens[2]] = "minute"
                    THEN NumberOf(tokens[1])
                    ELSE NumberOf(tokens[1]) * 60) * UnitsPerMinute]

\* -------------------------------------------------- relative-time parser
RelativeUnits == {"min", "mins", "minute", "minutes", "hour", "hours"}

\* words whose tail is "in" (the regex is not anchored at a word start)
EndsWithIn == {"in"}

RelMatchAt(ws, i) ==
  /\ i + 2 <= Len(ws)
  /\ ws[i] \in EndsWithIn
  /\ IsDigits(ws[i + 1])
  /\ ws[i + 2] \in RelativeUnits

Least(S) == CHOOSE x \in S : \A y \in S : x <= y

\* text with n words removed from position j; lead says whether the result
\* starts with whitespace
RemoveWords(c, j, n) ==
  [lead |-> c.lead \/ (j = 1 /\ Len(c.words) > n),
   words |-> SubSeq(c.words, 1, j - 1) \o SubSeq(c.words, j + n, Len(c.words))]

\* cleaned.replace(match[0], ""): the first place where the text holds the
\* matched (lower-case) phrase itself
StripPhrase(c, phrase) ==
  LET n == Len(phrase)
      at == {j \in 1..(Len(c.words) - n + 1) : SubSeq(c.words, j, j + n - 1) = phrase}
  IN IF at = {} THEN c ELSE RemoveWords(c, Least(at), n)

\* cleaned.replace(/\btoday\b/i, "")
StripToday(c) ==
  LET at == {j \in 1..Len(c.words) : ToLowerWord(c.words[j]) = "today"}
  IN IF at = {} THEN c ELSE RemoveWords(c, Least(at), 1)

\* cleaned.replace(/^<prefix>\s*/i, "")
StripPrefix(c, prefix) ==
  LET n == Len(prefix)
  IN IF ~c.lead /\ Len(c.words) >= n /\ toLowerCase(SubSeq(c.words, 1, n)) = prefix
     THEN [lead |-> FALSE, words |-> SubSeqFrom(c.words, n + 1)]
     ELSE c

NoRelative == [ok |-> FALSE, reminderMessage |-> <<>>, datetime |-> NoTime]

parseSimpleRelativeReminder(text, now) ==
  LET lower == toLowerCase(text)
      at == {i \in 1..Len(lower) : RelMatchAt(lower, i)}
  IN IF at = {} THEN NoRelative
     ELSE LET i == Least(at)
              amount == NumberOf(lower[i + 1])
              unit == lower[i + 2]
              offset == IF unit \in {"min", "mins", "minute", "minutes"}
                        THEN amount * UnitsPerMinute
                        ELSE amount * 60 * UnitsPerMinute
              c1 == StripPhrase([lead |-> FALSE, words |-> text], SubSeq(lower, i, i + 2))
              c2 == StripToday(c1)
              c3 == StripPrefix(c2, <<"remind", "me", "to">>)
              c4 == StripPrefix(c3, <<"remind", "me">>)
              cleaned == IF c4.words = <<>> THEN text ELSE c4.words
          IN IF amount <= 0 THEN NoRelative
             ELSE [ok |-> TRUE, reminderMessage |-> cleaned, datetime |-> now + offset]

\* ------------------------------------------------ strict time-of-day parse
\* moment(text, ["HH:mm", "H:mm", "h:mm A", "h:mma"], true): minute of day,
\* NoTime when invalid.
Time24 == [w \in {"9:00", "8:00"} |-> IF w = "9:00" THEN 9 * 60 ELSE 8 * 60]
Time12 == [w \in {"9:00"} |-> 9 * 60]

\* variant: a text that does not parse counts as 09:00
ParseTimeOfDay_Default(text) ==
  IF Len(text) = 1 /\ text[1] \in DOMAIN Time24 THEN Time24[text[1]]
  ELSE 9 * 60

ParseTimeOfDay(text) ==
  IF Len(text) = 1 /\ text[1] \in DOMAIN Time24 THEN Time24[text[1]]
  ELSE IF Len(text) = 2 /\ text[1] \in DOMAIN Time12
          /\ ToLowerWord(text[2]) \in {"am", "pm"}
       THEN Time12[text[1]] + (IF ToLowerWord(text[2]) = "pm" THEN 12 * 60 ELSE 0)
  ELSE NoTime

\* today at the parsed time, rolled one day on when already before now
GuidedFireTime_RollOnEqual(minute, now) ==
  LET today == At(DayIndex(now), minute)
  IN IF today <= now THEN today + DayUnits ELSE today

GuidedFireTime(minute, now) ==
  LET today == At(DayIndex(now), minute)
  IN IF today < now THEN today + DayUnits ELSE today

\* ----------------------------------------------------------------- state
VARIABLES
  clock,                \* wall clock (new Date())
  config,               \* process environment: Twilio and weather credentials
  users,                \* User rows, keyed by whatsappNumber
  reminders,            \* Reminder rows (one-time)
  nextReminderId,
  recurring,            \* RecurringReminder rows
  nextRecurringId,
  weatherSubs,          \* WeatherSubscription rows
  sessions,             \* in-memory guided-flow sessions
  weatherCitySessions,  \* in-memory "awaiting city" flags
  last,                 \* what the latest handler call or tick did
  inbound,              \* From and Body of the latest webhook request
  requests,             \* number of webhook requests handled so far
  attempts,             \* per one-time reminder id: sends a tick has tried
  delivered,            \* ids whose send and delete both succeeded
  flow,                 \* per address: progress of greeting -> M -> T
  wflow,                \* per address: progress of subscribe -> cancel -> bare
  running,              \* cron callbacks that have started and not returned
  pending,              \* handler calls suspended at a store await, and the
                        \* ones that went through one and have answered
  lastFire,             \* minute at which cron last called the callback
  forecasts             \* weather updates sent so far: whom, and the tick's now

vars == <<clock, config, users, reminders, nextReminderId, recurring,
          nextRecurringId, weatherSubs, sessions, weatherCitySessions,
          last, inbound, requests, attempts, delivered, flow, wflow,
          running, pending, lastFire, forecasts>>

\* the callbacks and handler calls in flight
async == <<running, pending, lastFire, forecasts>>

store == <<users, reminders, nextReminderId, recurring, nextRecurringId, weatherSubs>>

NoSession == [stage |-> "none", message |-> <<>>]

NewUser == [exists |-> FALSE, reminderCount |-> 0,
            lastReminderMessage |-> <<>>, lastReminderTime |-> NoTime]

\* a row written before this process started, holding a last-reminder snapshot
SnapshotUser == [exists |-> TRUE, reminderCount |-> 1,
                 lastReminderMessage |-> <<"call", "Mom">>,
                 lastReminderTime |-> At(0, 8 * 60)]

Configs == {[twilio |-> TRUE, weather |-> TRUE],
            [twilio |-> FALSE, weather |-> TRUE],
            [twilio |-> TRUE, weather |-> FALSE]}

NoFlow == [step |-> 0, m |-> <<>>, made |-> <<>>, ok |-> TRUE,
           wcs |-> FALSE, exp |-> FALSE, plain |-> FALSE]
NoWFlow == [step |-> 0, city |-> <<>>, good |-> TRUE]

Idle == [op |-> "init", addr |-> "", branch |-> "", reply |-> "", calls |-> 0,
         sends |-> 0, target |-> 0,
         now |-> NoTime, due |-> {}, sendFailed |-> {}, deleteFailed |-> {},
         fired |-> {}, rSendFailed |-> {}, rUpdateFailed |-> {},
         wLookedUp |-> {}, wFound |-> {}, wFailed |-> {}, wSent |-> {},
         aborted |-> 0, gone |-> FALSE, nlpTried |-> FALSE,
         nlp |-> [parsed |-> FALSE, intent |-> "other", reminderMessage |-> <<>>,
                  datetime |-> NoTime, confidence |-> 0]]

Init ==
  /\ clock = At(0, WindowStart)
  /\ config \in Configs
  /\ users = [a \in Addresses |-> IF a = "a1" THEN SnapshotUser ELSE NewUser]
  /\ reminders = {}
  /\ nextReminderId = 1
  /\ recurring = {}
  /\ nextRecurringId = 1
  /\ weatherSubs = {}
  /\ sessions = [a \in Addresses |-> NoSession]
  /\ weatherCitySessions = [a \in Addresses |-> FALSE]
  /\ last = Idle
  /\ inbound = [addr |-> "", words |-> <<>>]
  /\ requests = 0
  /\ attempts = [i \in 1..MaxReminders |-> 0]
  /\ delivered = {}
  /\ flow = [a \in Addresses |-> NoFlow]
  /\ wflow = [a \in Addresses |-> NoWFlow]
  /\ running = {}
  /\ pending = {}
  /\ lastFire = NoTime
  /\ forecasts = {}

\* the process started with WEATHER_API_KEY set
InitKeyed == Init /\ config.weather

\* ----------------------------------------------------------------- clock
\* Time passes: by one unit inside the modelled window of the day, to the
\* next morning, or to the same morning MonthJump days later.
ClockFrame ==
  /\ last' = [Idle EXCEPT !.op = "clock"]
  /\ UNCHANGED <<config, store, sessions, weatherCitySessions,
                 inbound, requests, attempts, delivered, flow, wflow, async,
                 forecasts>>

Tock ==
  /\ MinuteOfDay(clock + 1) <= WindowEnd
  /\ clock' = clock + 1
  /\ ClockFrame

NextMorning ==
  /\ DayIndex(clock) % MonthJump < MaxDay
  /\ clock' = At(DayIndex(clock) + 1, WindowStart)
  /\ ClockFrame

NextMonth ==
  /\ DayIndex(clock) < MonthJump
  /\ clock' = At(DayIndex(clock) + MonthJump, WindowStart)
  /\ ClockFrame

\* ------------------------------------------------------- inbound messages
Body(ws) == [pad |-> FALSE, words |-> ws]
Padded(ws) == [pad |-> TRUE, words |-> ws]

GreetingBodies == {Body(<<"hi">>), Body(<<"Hello">>)}
TimeBodies == {Body(<<"9:00">>), Body(<<"8:00">>), Body(<<"9:00", "PM">>)}
SubscribeCityBodies == {Body(<<"subscribe", "weather", "Pune">>)}
CancelWeatherBodies == {Body(<<"cancel", "weather">>)}
SubscribeBareBodies == {Body(<<"subscribe", "weather">>)}
SnoozeBodies == {Body(<<"snooze", "10", "minutes">>), Body(<<"snooze", "1", "h">>),
                 Body(<<"snooze", "soon">>), Body(<<"snooze">>)}
CancelBodies == {Body(<<"cancel", "1">>), Body(<<"cancel", "2">>),
                 Body(<<"cancel", "recurring", "1">>)}
ReminderBodies == {Body(<<"remind", "me", "to", "call", "Mom">>),
                   Body(<<"remind", "me", "daily">>),
                   Body(<<"remind", "me", "every", "month">>),
                   Body(<<"remind", "me", "to", "call", "Mom", "in", "5", "minutes">>)}
OtherBodies == {Body(<<"help">>), Body(<<"list">>), Body(<<"call", "Mom">>),
                Body(<<"later">>), Padded(<<>>), Body(<<>>)}

Bodies == GreetingBodies \cup TimeBodies \cup SubscribeCityBodies
          \cup CancelWeatherBodies \cup SubscribeBareBodies \cup SnoozeBodies
          \cup CancelBodies \cup ReminderBodies \cup OtherBodies

\* ---------------------------------------------------- the /whatsapp handler
\* `!from || !rawBody`: an empty body is refused before anything else
Accepted(raw) == raw.words # <<>> \/ raw.pad

\* variant: the upsert's update branch writes the counter back to zero
Upserted_ResetCount(a) == [users EXCEPT ![a].exists = TRUE, ![a].reminderCount = 0]

\* getOrCreateUserFromTwilio: prisma.user.upsert keyed by the address
Upserted(a) == [users EXCEPT ![a].exists = TRUE]

\* column defaults of rows created without the field
DefaultActive == TRUE

SubOf(a) == {s \in weatherSubs : s.userId = a}

\* sendWhatsAppMessage is called `calls` times; each call tries one Twilio
\* send unless the credentials are missing, and swallows a failed send.
sendWhatsAppMessage(calls) == IF config.twilio THEN calls ELSE 0

RespondTo(a, branch, reply, calls, target) ==
  last' = [Idle EXCEPT !.op = "msg", !.addr = a, !.branch = branch,
                       !.reply = reply, !.calls = calls,
                       !.sends = sendWhatsAppMessage(calls),
                       !.now = clock, !.target = target]

\* variant: the reply is never sent
Respond_Silent(a, branch, reply, calls) == RespondTo(a, branch, reply, 0, 0)

Respond(a, branch, reply, calls) == RespondTo(a, branch, reply, calls, 0)

\* a reply of the part of the handler that follows the command branches;
\* `tried` tells whether parseReminderWithGemini was called on the way
RespondAfterNlp(a, branch, reply, tried) ==
  last' = [Idle EXCEPT !.op = "msg", !.addr = a, !.branch = branch,
                       !.reply = reply, !.calls = 1,
                       !.sends = sendWhatsAppMessage(1),
                       !.now = clock, !.nlpTried = tried]

\* variant of the order: the awaiting-city flag is looked at after the commands
Route_CommandsFirst(a, raw) ==
  LET text == trim(raw)
      lower == toLowerCase(text)
  IN IF Tokens(lower)[1] = "snooze" THEN "snooze"
     ELSE IF subscribeWeatherWithCityMatch(text) THEN "subscribe_city"
     ELSE IF isSubscribeWeatherBare(text) THEN "subscribe_bare"
     ELSE IF cancelWeather(lower) THEN "cancel_weather"
     ELSE IF cancelRecurringMatch(lower) THEN "cancel_recurring"
     ELSE IF cancelOneTimeMatch(lower) THEN "cancel_onetime"
     ELSE IF isHelp(lower) THEN "help"
     ELSE IF isList(lower) THEN "list"
     ELSE IF weatherCitySessions[a] THEN "weather_city"
     ELSE "flow"

\* variant of the order: an open Session entry is looked at before the commands
Route_SessionFirst(a, raw) ==
  LET text == trim(raw)
      lower == toLowerCase(text)
  IN IF weatherCitySessions[a] THEN "weather_city"
     ELSE IF sessions[a] # NoSession THEN "flow"
     ELSE IF Tokens(lower)[1] = "snooze" THEN "snooze"
     ELSE IF subscribeWeatherWithCityMatch(text) THEN "subscribe_city"
     ELSE IF isSubscribeWeatherBare(text) THEN "subscribe_bare"
     ELSE IF cancelWeather(lower) THEN "cancel_weather"
     ELSE IF cancelRecurringMatch(lower) THEN "cancel_recurring"
     ELSE IF cancelOneTimeMatch(lower) THEN "cancel_onetime"
     ELSE IF isHelp(lower) THEN "help"
     ELSE IF isList(lower) THEN "list"
     ELSE "flow"

\* the order of the handler's branches
Route(a, raw) ==
  LET text == trim(raw)
      lower == toLowerCase(text)
  IN IF weatherCitySessions[a] THEN "weather_city"
     ELSE IF Tokens(lower)[1] = "snooze" THEN "snooze"
     ELSE IF subscribeWeatherWithCityMatch(text) THEN "subscribe_city"
     ELSE IF isSubscribeWeatherBare(text) THEN "subscribe_bare"
     ELSE IF cancelWeather(lower) THEN "cancel_weather"
     ELSE IF cancelRecurringMatch(lower) THEN "cancel_recurring"
     ELSE IF cancelOneTimeMatch(lower) THEN "cancel_onetime"
     ELSE IF isHelp(lower) THEN "help"
     ELSE IF isList(lower) THEN "list"
     ELSE "flow"

\* history of the guided round trip: greeting, then a text M, then a time T
FlowNext(a, raw) ==
  LET newMsgs == {r.message : r \in {x \in reminders' \ reminders : x.userId = a}}
      made == IF newMsgs = {} THEN <<>> ELSE <<CHOOSE m \in newMsgs : TRUE>>
      handled == last'.branch \notin {"bad_request", "user_error"}
                 /\ last'.reply \notin {"guided_save_failed", "snooze_error",
                                         "cancel_error", "list_error",
                                         "weather_error"}
      lower == toLowerCase(trim(raw))
      f == flow[a]
  IN IF isGreeting(lower)
     THEN [NoFlow EXCEPT !.step = 1, !.made = made, !.ok = handled,
                         !.wcs = weatherCitySessions[a]]
     ELSE IF f.step = 1 /\ raw.words # <<>>
     THEN [f EXCEPT !.step = 2, !.m = raw.words, !.made = f.made \o made,
                    !.ok = f.ok /\ handled,
                    !.exp = users[a].reminderCount > 0,
                    !.plain = /\ Route(a, raw) = "flow"
                              /\ ~(users[a].reminderCount > 0
                                   /\ looksLikeReminderSentence(lower))]
     ELSE IF f.step = 2 /\ ParseTimeOfDay(trim(raw)) # NoTime
     THEN [f EXCEPT !.step = 3, !.made = f.made \o made,
                    !.ok = f.ok /\ handled]
     ELSE NoFlow

\* history of subscribe weather <city>, cancel weather, subscribe weather
WFlowNext(a, raw) ==
  LET w == wflow[a]
      text == trim(raw)
      stored == {x.city : x \in {y \in weatherSubs' : y.userId = a}}
  IN IF subscribeWeatherWithCityMatch(text)
     THEN [step |-> 1,
           city |-> IF stored = {} THEN <<>> ELSE CHOOSE c \in stored : TRUE,
           good |-> last'.reply = "subscribed"]
     ELSE IF w.step = 1 /\ cancelWeather(toLowerCase(text))
     THEN [w EXCEPT !.step = 2, !.good = w.good /\ last'.reply = "weather_canceled"]
     ELSE IF w.step = 2 /\ isSubscribeWeatherBare(text)
     THEN [w EXCEPT !.step = 3,
                    !.good = w.good /\ last'.branch = "subscribe_bare"
                             /\ last'.reply # "weather_error"]
     ELSE NoWFlow

\* the request is counted and the two histories move
Received(a, raw) ==
  /\ flow' = [flow EXCEPT ![a] = FlowNext(a, raw)]
  /\ wflow' = [wflow EXCEPT ![a] = WFlowNext(a, raw)]
  /\ requests' = requests + 1
  /\ inbound' = [addr |-> a, words |-> raw.words]

\* a handler call that runs to its answer, and what it leaves alone
Hist(a, raw) ==
  /\ Received(a, raw)
  /\ UNCHANGED <<clock, config, attempts, delivered, async, forecasts>>

BadRequest(a, raw) ==
  /\ requests < MaxMessages
  /\ ~Accepted(raw)
  /\ Respond(a, "bad_request", "400", 0)
  /\ UNCHANGED <<store, sessions, weatherCitySessions>>
  /\ Hist(a, raw)

UserError(a, raw) ==
  /\ requests < MaxMessages
  /\ Accepted(raw)
  /\ Respond(a, "user_error", "500", 0)
  /\ UNCHANGED <<store, sessions, weatherCitySessions>>
  /\ Hist(a, raw)

\* variant: the branch creates a row without looking for an existing one
UpsertSubscription_AlwaysCreate(a, city) ==
  weatherSubs \cup {[userId |-> a, city |-> city, active |-> DefaultActive,
                     lastSentAt |-> NoTime]}

\* findUnique, then update {city, active: true} or create {userId, city}
UpsertSubscription(a, city) ==
  IF SubOf(a) # {}
  THEN {IF s.userId = a THEN [s EXCEPT !.city = city, !.active = TRUE] ELSE s :
          s \in weatherSubs}
  ELSE weatherSubs \cup {[userId |-> a, city |-> city, active |-> DefaultActive,
                          lastSentAt |-> NoTime]}

HandleWeatherCity(a, raw, dbOk) ==
  LET city == trim(raw)
  IN /\ requests < MaxMessages
     /\ Accepted(raw)
     /\ Route(a, raw) = "weather_city"
     /\ weatherCitySessions' = [weatherCitySessions EXCEPT ![a] = FALSE]
     /\ users' = Upserted(a)
     /\ IF city = <<>>
        THEN /\ Respond(a, "weather_city", "city_missing", 1)
             /\ UNCHANGED weatherSubs
        ELSE IF dbOk
        THEN /\ weatherSubs' = UpsertSubscription(a, city)
             /\ Respond(a, "weather_city", "subscribed", 1)
        ELSE /\ Respond(a, "weather_city", "weather_error", 1)
             /\ UNCHANGED weatherSubs
     /\ UNCHANGED <<reminders, nextReminderId, recurring, nextRecurringId, sessions>>
     /\ Hist(a, raw)

NewReminder(a, message, time) ==
  [id |-> nextReminderId, userId |-> a, message |-> message, time |-> time]

\* variant of the guard: snooze without looking at the snapshot
hasRecentReminder_Always(user) == TRUE

\* `!user.lastReminderMessage || !user.lastReminderTime`, negated
hasRecentReminder(user) ==
  user.lastReminderMessage # <<>> /\ user.lastReminderTime # NoTime

HandleSnooze(a, raw, dbOk) ==
  LET restTokens == Tail(Tokens(toLowerCase(trim(raw))))
      parsed == parseSnoozeArgs(restTokens)
      user == Upserted(a)[a]
  IN /\ requests < MaxMessages
     /\ Accepted(raw)
     /\ Route(a, raw) = "snooze"
     /\ users' = Upserted(a)
     /\ IF restTokens = <<>>
        THEN /\ Respond(a, "snooze", "snooze_missing", 1)
             /\ UNCHANGED <<reminders, nextReminderId>>
        ELSE IF ~parsed.ok
        THEN /\ Respond(a, "snooze", "snooze_invalid", 1)
             /\ UNCHANGED <<reminders, nextReminderId>>
        ELSE IF ~hasRecentReminder(user)
        THEN /\ Respond(a, "snooze", "snooze_no_recent", 1)
             /\ UNCHANGED <<reminders, nextReminderId>>
        ELSE IF dbOk
        THEN /\ nextReminderId <= MaxReminders
             /\ reminders' = reminders \cup
                  {NewReminder(a, user.lastReminderMessage, clock + parsed.offset)}
             /\ nextReminderId' = nextReminderId + 1
             /\ Respond(a, "snooze", "snoozed", 1)
        ELSE /\ Respond(a, "snooze", "snooze_error", 1)
             /\ UNCHANGED <<reminders, nextReminderId>>
     /\ UNCHANGED <<recurring, nextRecurringId, weatherSubs, sessions,
                    weatherCitySessions>>
     /\ Hist(a, raw)

HandleSubscribeCity(a, raw, dbOk) ==
  /\ requests < MaxMessages
  /\ Accepted(raw)
  /\ Route(a, raw) = "subscribe_city"
  /\ users' = Upserted(a)
  /\ IF dbOk
     THEN /\ weatherSubs' = UpsertSubscription(a, CityOf(trim(raw)))
          /\ Respond(a, "subscribe_city", "subscribed", 1)
     ELSE /\ Respond(a, "subscribe_city", "weather_error", 1)
          /\ UNCHANGED weatherSubs
  /\ UNCHANGED <<reminders, nextReminderId, recurring, nextRecurringId,
                 sessions, weatherCitySessions>>
  /\ Hist(a, raw)

\* variant: deactivating also forgets the city
SetSubActive_Forget(a, flag) ==
  {IF s.userId = a
   THEN [s EXCEPT !.active = flag, !.city = IF flag THEN s.city ELSE <<>>]
   ELSE s : s \in weatherSubs}

SetSubActive(a, flag) ==
  {IF s.userId = a THEN [s EXCEPT !.active = flag] ELSE s : s \in weatherSubs}

HandleSubscribeBare(a, raw, dbOk) ==
  /\ requests < MaxMessages
  /\ Accepted(raw)
  /\ Route(a, raw) = "subscribe_bare"
  /\ users' = Upserted(a)
  /\ IF ~dbOk
     THEN /\ Respond(a, "subscribe_bare", "weather_error", 1)
          /\ UNCHANGED <<weatherSubs, weatherCitySessions>>
     ELSE IF \E s \in SubOf(a) : s.city # <<>> /\ s.active
     THEN /\ Respond(a, "subscribe_bare", "already_subscribed", 1)
          /\ UNCHANGED <<weatherSubs, weatherCitySessions>>
     ELSE IF \E s \in SubOf(a) : s.city # <<>>
     THEN /\ weatherSubs' = SetSubActive(a, TRUE)
          /\ Respond(a, "subscribe_bare", "reactivated", 1)
          /\ UNCHANGED weatherCitySessions
     ELSE /\ weatherCitySessions' = [weatherCitySessions EXCEPT ![a] = TRUE]
          /\ Respond(a, "subscribe_bare", "ask_city", 1)
          /\ UNCHANGED weatherSubs
  /\ UNCHANGED <<reminders, nextReminderId, recurring, nextRecurringId, sessions>>
  /\ Hist(a, raw)

HandleCancelWeather(a, raw, dbOk) ==
  /\ requests < MaxMessages
  /\ Accepted(raw)
  /\ Route(a, raw) = "cancel_weather"
  /\ users' = Upserted(a)
  /\ IF ~dbOk
     THEN /\ Respond(a, "cancel_weather", "weather_error", 1)
          /\ UNCHANGED weatherSubs
     ELSE IF ~(\E s \in SubOf(a) : s.active)
     THEN /\ Respond(a, "cancel_weather", "no_subscription", 1)
          /\ UNCHANGED weatherSubs
     ELSE /\ weatherSubs' = SetSubActive(a, FALSE)
          /\ Respond(a, "cancel_weather", "weather_canceled", 1)
  /\ UNCHANGED <<reminders, nextReminderId, recurring, nextRecurringId,
                 sessions, weatherCitySessions>>
  /\ Hist(a, raw)

\* parseInt of the digits the regex captured (never NaN)
CancelId(raw, k) == NumberOf(toLowerCase(trim(raw))[k])

\* variant of the lookup: by id alone
FindReminder_AnyOwner(a, id) == {x \in reminders : x.id = id}

\* variant of the recurring lookup: by id alone
FindRecurring_AnyOwner(a, id) == {r \in recurring : r.id = id /\ r.active}

\* findFirst({ where: { id, userId: user.id, active: true } })
FindRecurring(a, id) == {r \in recurring : r.id = id /\ r.userId = a /\ r.active}

\* findFirst({ where: { id, userId: user.id } })
FindReminder(a, id) == {x \in reminders : x.id = id /\ x.userId = a}

HandleCancelRecurring(a, raw, dbOk) ==
  LET id == CancelId(raw, 3)
      rr == FindRecurring(a, id)
  IN /\ requests < MaxMessages
     /\ Accepted(raw)
     /\ Route(a, raw) = "cancel_recurring"
     /\ users' = Upserted(a)
     /\ IF ~dbOk
        THEN /\ RespondTo(a, "cancel_recurring", "cancel_error", 1, id)
             /\ UNCHANGED recurring
        ELSE IF rr = {}
        THEN /\ RespondTo(a, "cancel_recurring", "not_found", 1, id)
             /\ UNCHANGED recurring
        ELSE /\ recurring' = {IF r \in rr THEN [r EXCEPT !.active = FALSE] ELSE r :
                                r \in recurring}
             /\ RespondTo(a, "cancel_recurring", "canceled", 1, id)
     /\ UNCHANGED <<reminders, nextReminderId, nextRecurringId, weatherSubs,
                    sessions, weatherCitySessions>>
     /\ Hist(a, raw)

HandleCancelOneTime(a, raw, dbOk) ==
  LET id == CancelId(raw, 2)
      r == FindReminder(a, id)
  IN /\ requests < MaxMessages
     /\ Accepted(raw)
     /\ Route(a, raw) = "cancel_onetime"
     /\ users' = Upserted(a)
     /\ IF ~dbOk
        THEN /\ RespondTo(a, "cancel_onetime", "cancel_error", 1, id)
             /\ UNCHANGED reminders
        ELSE IF r = {}
        THEN /\ RespondTo(a, "cancel_onetime", "not_found", 1, id)
             /\ UNCHANGED reminders
        ELSE /\ reminders' = reminders \ r
             /\ RespondTo(a, "cancel_onetime", "canceled", 1, id)
     /\ UNCHANGED <<nextReminderId, recurring, nextRecurringId, weatherSubs,
                    sessions, weatherCitySessions>>
     /\ Hist(a, raw)

HandleHelp(a, raw) ==
  /\ requests < MaxMessages
  /\ Accepted(raw)
  /\ Route(a, raw) = "help"
  /\ users' = Upserted(a)
  /\ Respond(a, "help", "help", 1)
  /\ UNCHANGED <<reminders, nextReminderId, recurring, nextRecurringId,
                 weatherSubs, sessions, weatherCitySessions>>
  /\ Hist(a, raw)

HandleList(a, raw, dbOk) ==
  LET oneTime == {r \in reminders : r.userId = a /\ r.time > clock}
      rec == {r \in recurring : r.userId = a /\ r.active}
      sub == {s \in SubOf(a) : s.active}
  IN /\ requests < MaxMessages
     /\ Accepted(raw)
     /\ Route(a, raw) = "list"
     /\ users' = Upserted(a)
     /\ Respond(a, "list",
                IF ~dbOk THEN "list_error"
                ELSE IF oneTime = {} /\ rec = {} /\ sub = {} THEN "list_empty"
                ELSE "list", 1)
     /\ UNCHANGED <<reminders, nextReminderId, recurring, nextRecurringId,
                    weatherSubs, sessions, weatherCitySessions>>
     /\ Hist(a, raw)

\* --------------------------------------------------------- NLP-first path
ConfidenceThreshold == 6

\* what parseReminderWithGemini may answer: null, or a parsed object
NlpNull == [parsed |-> FALSE, intent |-> "other", reminderMessage |-> <<>>,
            datetime |-> NoTime, confidence |-> 0]

NlpTimes == {At(0, 9 * 60), At(MonthJump + 1, 9 * 60)}

NlpResults ==
  {NlpNull} \cup
  [parsed : {TRUE}, intent : {"create_reminder", "other"},
   reminderMessage : {<<>>, <<"call", "Mom">>},
   datetime : {NoTime} \cup NlpTimes, confidence : {5, 6}]

NlpAccept_AnyConfidence(p) ==
  /\ p.parsed
  /\ p.intent = "create_reminder"
  /\ p.datetime # NoTime
  /\ p.reminderMessage # <<>>

NlpAccept(p) ==
  /\ p.parsed
  /\ p.intent = "create_reminder"
  /\ p.datetime # NoTime
  /\ p.reminderMessage # <<>>
  /\ p.confidence >= ConfidenceThreshold

\* variant: the NLP-first block ignores an open session
shouldTryNLPFirst_AnySession(a, raw) ==
  LET lower == toLowerCase(trim(raw))
  IN ~isHelp(lower) /\ looksLikeReminderSentence(lower)

shouldTryNLPFirst_NoSessionOnly(a, raw) ==
  LET lower == toLowerCase(trim(raw))
  IN /\ ~isHelp(lower)
     /\ sessions[a].stage = "none"
     /\ looksLikeReminderSentence(lower)

shouldTryNLPFirst(a, raw) ==
  LET lower == toLowerCase(trim(raw))
  IN /\ ~isHelp(lower)
     /\ (sessions[a].stage = "none" \/ users[a].reminderCount > 0)
     /\ looksLikeReminderSentence(lower)

\* which record the NLP-first block tries to write, if any
NlpDecision(a, raw, nlp) ==
  LET text == trim(raw)
      lower == toLowerCase(text)
  IN IF ~shouldTryNLPFirst(a, raw) THEN "skip"
     ELSE IF NlpAccept(nlp)
     THEN (IF recursMonthly(lower) THEN "monthly"
           ELSE IF recursDaily(lower) THEN "daily"
           ELSE "onetime")
     ELSE IF parseSimpleRelativeReminder(text, clock).ok THEN "relative"
     ELSE "none"

\* variant: the counter update of the transaction is lost
IncrementCount_Lost(a) == Upserted(a)

\* variant: the update of the transaction stores the snapshot as well
IncrementCount_WithSnapshot(a) ==
  [Upserted(a) EXCEPT ![a].reminderCount = users[a].reminderCount + 1,
                      ![a].lastReminderMessage = <<"call", "Mom">>,
                      ![a].lastReminderTime = clock]

\* prisma.user.update of the creating $transaction
IncrementCount(a) ==
  [Upserted(a) EXCEPT ![a].reminderCount = users[a].reminderCount + 1]

\* dayOfMonth of a row created without the field
NoDay == 0

\* variant: the day of the parsed date is stored for every kind
NewRecurring_DayAlways(a, message, kind, dt) ==
  [id |-> nextRecurringId, userId |-> a, message |-> message,
   recurrenceType |-> kind,
   dayOfMonth |-> getDate(dt),
   timeOfDay |-> getCurrentTimeString(dt),
   active |-> DefaultActive, lastTriggeredAt |-> NoTime]

NewRecurring(a, message, kind, dt) ==
  [id |-> nextRecurringId, userId |-> a, message |-> message,
   recurrenceType |-> kind,
   dayOfMonth |-> IF kind = "MONTHLY" THEN getDate(dt) ELSE NoDay,
   timeOfDay |-> getCurrentTimeString(dt),
   active |-> DefaultActive, lastTriggeredAt |-> NoTime]

\* the $transaction of the NLP-first block commits and the handler returns
HandleNlpCreate(a, raw, nlp) ==
  LET text == trim(raw)
      d == NlpDecision(a, raw, nlp)
      rel == parseSimpleRelativeReminder(text, clock)
  IN /\ requests < MaxMessages
     /\ Accepted(raw)
     /\ Route(a, raw) = "flow"
     /\ d \in {"monthly", "daily", "onetime", "relative"}
     /\ users' = IncrementCount(a)
     /\ IF d \in {"monthly", "daily"}
        THEN /\ nextRecurringId <= MaxRecurring
             /\ recurring' = recurring \cup
                  {NewRecurring(a, nlp.reminderMessage,
                                IF d = "monthly" THEN "MONTHLY" ELSE "DAILY",
                                nlp.datetime)}
             /\ nextRecurringId' = nextRecurringId + 1
             /\ UNCHANGED <<reminders, nextReminderId>>
        ELSE /\ nextReminderId <= MaxReminders
             /\ reminders' = reminders \cup
                  {IF d = "onetime"
                   THEN NewReminder(a, nlp.reminderMessage, nlp.datetime)
                   ELSE NewReminder(a, rel.reminderMessage, rel.datetime)}
             /\ nextReminderId' = nextReminderId + 1
             /\ UNCHANGED <<recurring, nextRecurringId>>
     /\ last' = [Idle EXCEPT !.op = "msg", !.addr = a, !.branch = "nlp",
                             !.reply = "created_" \o d, !.calls = 1,
                             !.sends = sendWhatsAppMessage(1),
                             !.now = clock, !.nlpTried = TRUE, !.nlp = nlp]
     /\ UNCHANGED <<weatherSubs, sessions, weatherCitySessions>>
     /\ Hist(a, raw)

\* ------------------------------------------- guided flow and the fallbacks
\* variant: the session is deleted inside the try block, after the save
SessionAfterSave_InTry(a, saved) == IF saved THEN NoSession ELSE sessions[a]

\* `delete sessions[from]` after the try/catch of the save
SessionAfterSave(a, saved) == NoSession

\* Reached when the NLP-first block was skipped, produced nothing, or its
\* transaction threw (the catch falls through).
AwaitingTime_Lower(text) ==
  [stage |-> "awaiting_time", message |-> toLowerCase(text)]

\* sessions[from] = { stage: "awaiting_time", message: text }
AwaitingTime(text) == [stage |-> "awaiting_time", message |-> text]

FallbackReply_Experienced(isExperienced) == "experienced_fallback"

FallbackReply(isExperienced) ==
  IF isExperienced THEN "experienced_fallback" ELSE "generic_fallback"

HandleGuided(a, raw, dbOk) ==
  LET text == trim(raw)
      lower == toLowerCase(text)
      session == sessions[a]
      isExperienced == users[a].reminderCount > 0
      minute == ParseTimeOfDay(text)
      tried == shouldTryNLPFirst(a, raw)
  IN /\ requests < MaxMessages
     /\ Accepted(raw)
     /\ Route(a, raw) = "flow"
     /\ IF \E nlp \in NlpResults : NlpDecision(a, raw, nlp) \in {"skip", "none"}
        THEN TRUE ELSE ~dbOk
     /\ IF isGreeting(lower)
        THEN /\ sessions' = [sessions EXCEPT ![a] =
                               [stage |-> "awaiting_message", message |-> <<>>]]
             /\ users' = Upserted(a)
             /\ RespondAfterNlp(a, "greeting", "welcome", tried)
             /\ UNCHANGED <<reminders, nextReminderId>>
        ELSE IF session.stage = "awaiting_message"
        THEN /\ sessions' = [sessions EXCEPT ![a] = AwaitingTime(text)]
             /\ users' = Upserted(a)
             /\ RespondAfterNlp(a, "session", "ask_time", tried)
             /\ UNCHANGED <<reminders, nextReminderId>>
        ELSE IF session.stage = "awaiting_time"
        THEN IF minute = NoTime
             THEN /\ RespondAfterNlp(a, "session", "time_invalid", tried)
                  /\ users' = Upserted(a)
                  /\ UNCHANGED <<reminders, nextReminderId, sessions>>
             ELSE /\ sessions' = [sessions EXCEPT ![a] = SessionAfterSave(a, dbOk)]
                  /\ IF dbOk
                     THEN /\ nextReminderId <= MaxReminders
                          /\ reminders' = reminders \cup
                               {NewReminder(a, session.message,
                                            GuidedFireTime(minute, clock))}
                          /\ nextReminderId' = nextReminderId + 1
                          /\ users' = IncrementCount(a)
                          /\ RespondAfterNlp(a, "session", "guided_saved", tried)
                     ELSE /\ users' = Upserted(a)
                          /\ RespondAfterNlp(a, "session", "guided_save_failed", tried)
                          /\ UNCHANGED <<reminders, nextReminderId>>
        ELSE /\ users' = Upserted(a)
             /\ RespondAfterNlp(a, "fallback", FallbackReply(isExperienced), tried)
             /\ UNCHANGED <<reminders, nextReminderId, sessions>>
     /\ UNCHANGED <<recurring, nextRecurringId, weatherSubs, weatherCitySessions>>
     /\ Hist(a, raw)

\* ------------------------------------------------------ the scheduler tick
Ids(S) == {r.id : r \in S}

\* A selection by equality, as the recurring sweep compares its minute.
DueReminders_ExactlyNow(now) == {r \in reminders : r.time = now}

\* A selection without the `lte: now` filter.
DueReminders_All(now) == reminders

\* findMany({ where: { time: { lte: now } } })
DueReminders(now) == {r \in reminders : r.time <= now}

\* One item of a sweep: the send and the store write share one try block,
\* so a send that throws skips the write.  Without Twilio credentials the
\* send is skipped and cannot throw.
ItemOutcomes == IF config.twilio THEN {"ok", "send_failed", "write_failed"}
                ELSE {"ok", "write_failed"}

SendAttempted(outcome) == config.twilio

\* variants of the one-time item: the delete in a finally block, and no delete
OneTimeDeleted_Finally(outcome) == outcome # "write_failed"
OneTimeDeleted_Never(outcome) == FALSE

\* prisma.reminder.delete runs and succeeds
OneTimeDeleted(outcome) == outcome # "send_failed" /\ outcome # "write_failed"

\* variant of the recurring item: the update in a finally block
RecurringMarked_Finally(outcome) == outcome # "write_failed"

\* prisma.recurringReminder.update({ lastTriggeredAt: now }) runs and succeeds
RecurringMarked(outcome) == outcome # "send_failed" /\ outcome # "write_failed"

\* prisma.weatherSubscription.update({ lastSentAt: now }) runs and succeeds
WeatherStamped_Found(outcome) == outcome # "lookup_failed"

WeatherStamped(outcome) ==
  outcome \notin {"lookup_failed", "send_failed", "write_failed"}

\* variant of the decision: a MONTHLY reminder without the day-of-month test
shouldTrigger_AnyDay(rr, now) ==
  LET last0 == rr.lastTriggeredAt
  IN IF rr.recurrenceType = "DAILY"
     THEN last0 = NoTime \/ ~isSameDay(now, last0)
     ELSE last0 = NoTime \/ ~isSameYearMonth(now, last0)

shouldTrigger(rr, now) ==
  LET last0 == rr.lastTriggeredAt
  IN IF rr.recurrenceType = "DAILY"
     THEN last0 = NoTime \/ ~isSameDay(now, last0)
     ELSE IF rr.recurrenceType = "MONTHLY"
     THEN /\ rr.dayOfMonth # 0
          /\ rr.dayOfMonth = getDate(now)
          /\ (last0 = NoTime \/ ~isSameYearMonth(now, last0))
     ELSE FALSE

\* findMany({ where: { active: true } }), then the filters of the loop
FiredRecurring_Window(now) ==
  {rr \in recurring : /\ rr.active
                      /\ rr.timeOfDay[1] * 60 + rr.timeOfDay[2] <= MinuteOfDay(now)
                      /\ shouldTrigger(rr, now)}

FiredRecurring_Inactive(now) ==
  {rr \in recurring : /\ rr.timeOfDay = getCurrentTimeString(now)
                      /\ shouldTrigger(rr, now)}

FiredRecurring(now) ==
  {rr \in recurring : /\ rr.active
                      /\ rr.timeOfDay = getCurrentTimeString(now)
                      /\ shouldTrigger(rr, now)}

WeatherSweepRuns(now) == getCurrentTimeString(now) = weatherTime /\ config.weather

WeatherCandidates(now) ==
  {s \in weatherSubs : /\ s.active
                       /\ ~(s.lastSentAt # NoTime /\ isSameDay(now, s.lastSentAt))}

\* fetchWeatherSummary answers null ("lookup_failed") or a summary
WeatherOutcomes == ItemOutcomes \cup {"lookup_failed"}

Reached_UntilFailure(items, o) ==
  {r \in items : \A q \in items : q.id < r.id => o[q.id] = "ok"}

\* the try/catch inside each loop: an item that throws is logged and the
\* loop goes on, so a sweep reaches every item it selected
Reached(items, o) == items

Skipped_OwnSweepOnly(abortAt, sweep) == abortAt = sweep

\* `abortAt` is the findMany that throws into the outer catch (0: none): the
\* one try block holds the three sweeps, so that sweep and the ones after
\* it do nothing in this tick
Skipped(abortAt, sweep) == abortAt # 0 /\ abortAt <= sweep

TickBody(now, abortAt, o1, o2, o3) ==
  LET due == IF Skipped(abortAt, 1) THEN {} ELSE Reached(DueReminders(now), o1)
      gone == {r \in due : OneTimeDeleted(o1[r.id])}
      fired == IF Skipped(abortAt, 2) THEN {} ELSE Reached(FiredRecurring(now), o2)
      marked == {rr \in fired : RecurringMarked(o2[rr.id])}
      cand == IF Skipped(abortAt, 3) \/ ~WeatherSweepRuns(now) THEN {}
              ELSE WeatherCandidates(now)
      looked == {s \in cand : o3[s.userId] # "lookup_failed"}
      stamped == {s \in looked : WeatherStamped(o3[s.userId])}
  IN /\ reminders' = reminders \ gone
     /\ recurring' = {IF rr \in marked THEN [rr EXCEPT !.lastTriggeredAt = now]
                      ELSE rr : rr \in recurring}
     /\ weatherSubs' = {IF s \in stamped THEN [s EXCEPT !.lastSentAt = now]
                        ELSE s : s \in weatherSubs}
     /\ attempts' = [i \in 1..MaxReminders |->
                       IF i \in Ids(due) /\ SendAttempted(o1[i]) /\ attempts[i] < MaxAttempts
                       THEN attempts[i] + 1 ELSE attempts[i]]
     /\ delivered' = delivered \cup
                       {i \in Ids(due) : SendAttempted(o1[i]) /\ o1[i] = "ok"}
     /\ last' = [Idle EXCEPT
           !.op = "tick", !.now = now, !.aborted = abortAt,
           !.due = Ids(due),
           !.sendFailed = {r.id : r \in {x \in due : o1[x.id] = "send_failed"}},
           !.deleteFailed = {r.id : r \in {x \in due : o1[x.id] = "write_failed"}},
           !.fired = Ids(fired),
           !.rSendFailed = {r.id : r \in {x \in fired : o2[x.id] = "send_failed"}},
           !.rUpdateFailed = {r.id : r \in {x \in fired : o2[x.id] = "write_failed"}},
           !.wLookedUp = {s.userId : s \in cand},
           !.wFound = {s.userId : s \in looked},
           !.wFailed = {s.userId : s \in {x \in looked :
                          o3[x.userId] \in {"send_failed", "write_failed"}}},
           !.wSent = {s.userId : s \in {x \in looked : SendAttempted(o3[x.userId])}}]
     /\ forecasts' = forecasts \cup
          {[userId |-> s.userId, now |-> now] :
             s \in {x \in looked : /\ SendAttempted(o3[x.userId])
                                   /\ o3[x.userId] # "send_failed"}}

\* each item a sweep reaches has its own outcome
Tick ==
  \E abortAt \in 0..3 :
    \E o1 \in [Ids(DueReminders(clock)) -> ItemOutcomes],
       o2 \in [Ids(FiredRecurring(clock)) -> ItemOutcomes],
       o3 \in [{s.userId : s \in WeatherCandidates(clock)} -> WeatherOutcomes] :
      /\ abortAt = 3 => WeatherSweepRuns(clock)
      /\ TickBody(clock, abortAt, o1, o2, o3)
      /\ UNCHANGED <<clock, config, users, nextReminderId, nextRecurringId,
                     sessions, weatherCitySessions, inbound, requests, flow, wflow,
                     async>>

\* ------------------------------------------- the callback, await by await
\* node-cron calls the async callback at every minute and does not wait for
\* the promise of the previous call; the handler is async too, and another
\* callback or request runs whenever one of them is suspended at an await.
MaxDeliveries == 2

\* cron.schedule("* * * * *"): one call per minute.  The callback reads
\* `now` and selects the due one-time reminders; a findMany that throws
\* ends the callback in the outer catch.
CronFire(ok) ==
  /\ lastFire # clock \div UnitsPerMinute
  /\ lastFire' = clock \div UnitsPerMinute
  /\ running' = IF ok THEN running \cup {[now |-> clock, todo |-> DueReminders(clock)]}
                ELSE running
  /\ last' = [Idle EXCEPT !.op = "tick_start", !.now = clock,
                          !.due = IF ok THEN Ids(DueReminders(clock)) ELSE {},
                          !.aborted = IF ok THEN 0 ELSE 1]
  /\ UNCHANGED <<clock, config, store, sessions, weatherCitySessions, inbound,
                 requests, attempts, delivered, flow, wflow, pending, forecasts>>

\* One pass of the one-time loop over the rows the callback selected: the
\* send, then the delete, which throws when the row is no longer there.
TickItem(t, outcome) ==
  LET r == CHOOSE x \in t.todo : \A y \in t.todo : x.id <= y.id
      present == \E x \in reminders : x.id = r.id
      sent == SendAttempted(outcome)
  IN /\ t \in running
     /\ t.todo # {}
     /\ reminders' = IF OneTimeDeleted(outcome)
                     THEN {x \in reminders : x.id # r.id} ELSE reminders
     /\ running' = (running \ {t}) \cup {[t EXCEPT !.todo = t.todo \ {r}]}
     /\ attempts' = [attempts EXCEPT ![r.id] =
                       IF sent /\ attempts[r.id] < MaxAttempts
                       THEN attempts[r.id] + 1 ELSE attempts[r.id]]
     /\ delivered' = IF sent /\ outcome = "ok" /\ present
                     THEN delivered \cup {r.id} ELSE delivered
     /\ last' = [Idle EXCEPT !.op = "tick_item", !.now = t.now, !.target = r.id,
                             !.sends = IF sent THEN 1 ELSE 0,
                             !.due = {r.id},
                             !.sendFailed = IF outcome = "send_failed" THEN {r.id} ELSE {},
                             !.deleteFailed = IF outcome = "write_failed" THEN {r.id} ELSE {},
                             !.gone = OneTimeDeleted(outcome) /\ ~present]
     /\ UNCHANGED <<clock, config, users, nextReminderId, recurring, nextRecurringId,
                    weatherSubs, sessions, weatherCitySessions, inbound, requests,
                    flow, wflow, pending, lastFire, forecasts>>

\* After the one-time loop: the recurring sweep and the weather sweep, at
\* the callback's own `now`, and the callback returns.
TickFinish(t, abortAt, o2, o3) ==
  LET now == t.now
      fired == IF Skipped(abortAt, 2) THEN {} ELSE FiredRecurring(now)
      marked == {rr \in fired : RecurringMarked(o2[rr.id])}
      cand == IF Skipped(abortAt, 3) \/ ~WeatherSweepRuns(now) THEN {}
              ELSE WeatherCandidates(now)
      looked == {s \in cand : o3[s.userId] # "lookup_failed"}
      stamped == {s \in looked : WeatherStamped(o3[s.userId])}
  IN /\ t \in running
     /\ t.todo = {}
     /\ abortAt = 3 => WeatherSweepRuns(now)
     /\ running' = running \ {t}
     /\ recurring' = {IF rr \in marked THEN [rr EXCEPT !.lastTriggeredAt = now]
                      ELSE rr : rr \in recurring}
     /\ weatherSubs' = {IF s \in stamped THEN [s EXCEPT !.lastSentAt = now]
                        ELSE s : s \in weatherSubs}
     /\ last' = [Idle EXCEPT
           !.op = "tick_end", !.now = now, !.aborted = abortAt,
           !.fired = Ids(fired),
           !.rSendFailed = {r.id : r \in {x \in fired : o2[x.id] = "send_failed"}},
           !.rUpdateFailed = {r.id : r \in {x \in fired : o2[x.id] = "write_failed"}},
           !.wLookedUp = {s.userId : s \in cand},
           !.wFound = {s.userId : s \in looked},
           !.wFailed = {s.userId : s \in {x \in looked :
                          o3[x.userId] \in {"send_failed", "write_failed"}}},
           !.wSent = {s.userId : s \in {x \in looked : SendAttempted(o3[x.userId])}}]
     /\ forecasts' = forecasts \cup
          {[userId |-> s.userId, now |-> now] :
             s \in {x \in looked : /\ SendAttempted(o3[x.userId])
                                   /\ o3[x.userId] # "send_failed"}}
     /\ UNCHANGED <<clock, config, users, reminders, nextReminderId, nextRecurringId,
                    sessions, weatherCitySessions, inbound, requests, attempts,
                    delivered, flow, wflow, pending, lastFire>>

\* ------------------------------------------- the handler, await by await
NewCall(a, raw, msg, kind) ==
  [rid |-> Cardinality(pending) + 1, msg |-> msg, kind |-> kind, addr |-> a,
   words |-> raw.words, target |-> 0, message |-> <<>>, time |-> NoTime,
   pc |-> "wait", reply |-> ""]

Deliveries(msg) == {p \in pending : p.msg = msg}

Answered(p, reply) ==
  pending' = (pending \ {p}) \cup {[p EXCEPT !.pc = "done", !.reply = reply]}

Suspended(a) == last' = [Idle EXCEPT !.op = "await", !.addr = a, !.now = clock]

\* cancel <id> up to the end of `await prisma.reminder.findFirst`
CancelFind(a, raw, dbOk) ==
  LET id == CancelId(raw, 2)
      r == FindReminder(a, id)
  IN /\ requests < MaxMessages
     /\ Accepted(raw)
     /\ Route(a, raw) = "cancel_onetime"
     /\ users' = Upserted(a)
     /\ IF ~dbOk
        THEN /\ RespondTo(a, "cancel_onetime", "cancel_error", 1, id)
             /\ UNCHANGED pending
        ELSE IF r = {}
        THEN /\ RespondTo(a, "cancel_onetime", "not_found", 1, id)
             /\ UNCHANGED pending
        ELSE /\ Suspended(a)
             /\ pending' = pending \cup
                  {[NewCall(a, raw, requests + 1, "cancel") EXCEPT !.target = id]}
     /\ UNCHANGED <<clock, config, reminders, nextReminderId, recurring,
                    nextRecurringId, weatherSubs, sessions, weatherCitySessions,
                    attempts, delivered, running, lastFire, forecasts>>
     /\ Received(a, raw)

\* the rest of the branch: `await prisma.reminder.delete`, which throws when
\* the row is gone, and the reply
CancelDelete(p, dbOk) ==
  LET present == \E x \in reminders : x.id = p.target
  IN /\ p \in pending
     /\ p.kind = "cancel"
     /\ p.pc = "wait"
     /\ IF dbOk /\ present
        THEN /\ reminders' = {x \in reminders : x.id # p.target}
             /\ RespondTo(p.addr, "cancel_onetime", "canceled", 1, p.target)
             /\ Answered(p, "canceled")
        ELSE /\ last' = [Idle EXCEPT !.op = "msg", !.addr = p.addr,
                                     !.branch = "cancel_onetime",
                                     !.reply = "cancel_error", !.calls = 1,
                                     !.sends = sendWhatsAppMessage(1),
                                     !.now = clock, !.target = p.target,
                                     !.gone = dbOk /\ ~present]
             /\ Answered(p, "cancel_error")
             /\ UNCHANGED reminders
     /\ inbound' = [addr |-> p.addr, words |-> p.words]
     /\ UNCHANGED <<clock, config, users, nextReminderId, recurring, nextRecurringId,
                    weatherSubs, sessions, weatherCitySessions, requests, attempts,
                    delivered, flow, wflow, running, lastFire, forecasts>>

\* a time text in awaiting_time up to `await prisma.$transaction`: the
\* session was read and the fire time computed before the await
TimeAwaits(a, raw) ==
  /\ Accepted(raw)
  /\ Route(a, raw) = "flow"
  /\ \E nlp \in NlpResults : NlpDecision(a, raw, nlp) \in {"skip", "none"}
  /\ ~isGreeting(toLowerCase(trim(raw)))
  /\ sessions[a].stage = "awaiting_time"
  /\ ParseTimeOfDay(trim(raw)) # NoTime

TimeCall(a, raw, msg) ==
  [NewCall(a, raw, msg, "time") EXCEPT
     !.message = sessions[a].message,
     !.time = GuidedFireTime(ParseTimeOfDay(trim(raw)), clock)]

TimeReceive(a, raw) ==
  /\ requests < MaxMessages
  /\ TimeAwaits(a, raw)
  /\ users' = Upserted(a)
  /\ pending' = pending \cup {TimeCall(a, raw, requests + 1)}
  /\ Suspended(a)
  /\ UNCHANGED <<clock, config, reminders, nextReminderId, recurring,
                 nextRecurringId, weatherSubs, sessions, weatherCitySessions,
                 attempts, delivered, running, lastFire, forecasts>>
  /\ Received(a, raw)

\* the webhook delivers the same message again while a call for it is
\* still suspended
TimeRedeliver(p) ==
  /\ p \in pending
  /\ p.kind = "time"
  /\ p.pc = "wait"
  /\ Cardinality(Deliveries(p.msg)) < MaxDeliveries
  /\ TimeAwaits(p.addr, Body(p.words))
  /\ pending' = pending \cup {TimeCall(p.addr, Body(p.words), p.msg)}
  /\ Suspended(p.addr)
  /\ inbound' = [addr |-> p.addr, words |-> p.words]
  /\ UNCHANGED <<clock, config, store, sessions, weatherCitySessions, requests,
                 attempts, delivered, flow, wflow, running, lastFire, forecasts>>

\* the transaction commits or throws, `delete sessions[from]`, the reply
TimeCommit(p, dbOk) ==
  /\ p \in pending
  /\ p.kind = "time"
  /\ p.pc = "wait"
  /\ sessions' = [sessions EXCEPT ![p.addr] = SessionAfterSave(p.addr, dbOk)]
  /\ IF dbOk
     THEN /\ nextReminderId <= MaxReminders
          /\ reminders' = reminders \cup {NewReminder(p.addr, p.message, p.time)}
          /\ nextReminderId' = nextReminderId + 1
          /\ users' = IncrementCount(p.addr)
          /\ RespondTo(p.addr, "session", "guided_saved", 1, p.msg)
          /\ Answered(p, "guided_saved")
     ELSE /\ RespondTo(p.addr, "session", "guided_save_failed", 1, p.msg)
          /\ Answered(p, "guided_save_failed")
          /\ UNCHANGED <<users, reminders, nextReminderId>>
  /\ inbound' = [addr |-> p.addr, words |-> p.words]
  /\ UNCHANGED <<clock, config, recurring, nextRecurringId, weatherSubs,
                 weatherCitySessions, requests, attempts, delivered, flow, wflow,
                 running, lastFire, forecasts>>

\* subscribe weather <city>, or the city sent after the prompt, up to the
\* end of `await prisma.weatherSubscription.findUnique`
SubscribeFind(a, raw, dbOk) ==
  LET branch == Route(a, raw)
      city == IF branch = "weather_city" THEN trim(raw) ELSE CityOf(trim(raw))
  IN /\ requests < MaxMessages
     /\ Accepted(raw)
     /\ branch \in {"weather_city", "subscribe_city"}
     /\ city # <<>>
     /\ users' = Upserted(a)
     /\ weatherCitySessions' = [weatherCitySessions EXCEPT ![a] = FALSE]
     /\ IF ~dbOk
        THEN /\ Respond(a, branch, "weather_error", 1)
             /\ UNCHANGED pending
        ELSE /\ Suspended(a)
             /\ pending' = pending \cup
                  {[NewCall(a, raw, requests + 1, branch) EXCEPT
                      !.message = city,
                      !.target = IF SubOf(a) # {} THEN 1 ELSE 0]}
     /\ UNCHANGED <<clock, config, reminders, nextReminderId, recurring,
                    nextRecurringId, weatherSubs, sessions, attempts, delivered,
                    running, lastFire, forecasts>>
     /\ Received(a, raw)

\* WeatherSubscription.userId is the key of findUnique and update: a second
\* row for the same user is refused by the store
UniqueViolation(a) == SubOf(a) # {}

\* the rest of the branch: update when a row was found, create when none
\* was, and the reply
SubscribeWrite(p, dbOk) ==
  LET a == p.addr
      created == weatherSubs \cup {[userId |-> a, city |-> p.message,
                                    active |-> DefaultActive, lastSentAt |-> NoTime]}
      updated == {IF s.userId = a THEN [s EXCEPT !.city = p.message, !.active = TRUE]
                  ELSE s : s \in weatherSubs}
      ok == dbOk /\ (p.target = 1 \/ ~UniqueViolation(a))
  IN /\ p \in pending
     /\ p.kind \in {"weather_city", "subscribe_city"}
     /\ p.pc = "wait"
     /\ weatherSubs' = IF ~ok THEN weatherSubs
                       ELSE IF p.target = 1 THEN updated ELSE created
     /\ Respond(a, p.kind, IF ok THEN "subscribed" ELSE "weather_error", 1)
     /\ Answered(p, IF ok THEN "subscribed" ELSE "weather_error")
     /\ inbound' = [addr |-> a, words |-> p.words]
     /\ UNCHANGED <<clock, config, users, reminders, nextReminderId, recurring,
                    nextRecurringId, sessions, weatherCitySessions, requests,
                    attempts, delivered, flow, wflow, running, lastFire, forecasts>>

\* ---------------------------------------------------------- specifications
\* The one-time sweep: reminders come from the NLP-first path, time passes,
\* the scheduler ticks.
OneTimeInbox == {Body(<<"remind", "me", "to", "call", "Mom">>)}

NextOneTime ==
  \/ \E raw \in OneTimeInbox, nlp \in NlpResults : HandleNlpCreate("a1", raw, nlp)
  \/ Tick
  \/ Tock
  \/ NextMorning

SpecOneTime == InitKeyed /\ [][NextOneTime]_vars

\* The recurring sweep: daily and monthly reminders of one user.
RecurringInbox == {Body(<<"remind", "me", "daily">>),
                   Body(<<"remind", "me", "every", "month">>)}

NextRecurring ==
  \/ \E raw \in RecurringInbox, nlp \in NlpResults : HandleNlpCreate("a1", raw, nlp)
  \/ Tick
  \/ Tock
  \/ NextMorning
  \/ NextMonth

SpecRecurring == InitKeyed /\ [][NextRecurring]_vars

\* One-time and recurring reminders of one user under the same ticks.
SweepsInbox == OneTimeInbox \cup {Body(<<"remind", "me", "daily">>)}

NextSweeps ==
  \/ \E raw \in SweepsInbox, nlp \in NlpResults :
       HandleNlpCreate("a1", raw, nlp)
  \/ Tick
  \/ Tock

SpecSweeps == InitKeyed /\ [][NextSweeps]_vars

\* Recurring reminders that their owner, or somebody else, tries to cancel.
CancelRecurringInbox == RecurringInbox \cup {Body(<<"cancel", "recurring", "1">>)}

NextRecurringCancel ==
  \/ \E raw \in CancelRecurringInbox, nlp \in NlpResults :
       HandleNlpCreate("a1", raw, nlp)
  \/ \E a \in Addresses, raw \in CancelRecurringInbox, dbOk \in BOOLEAN :
       HandleCancelRecurring(a, raw, dbOk)
  \/ Tick
  \/ Tock

SpecRecurringCancel == InitKeyed /\ [][NextRecurringCancel]_vars

\* A daily reminder and a weather subscription of one user, both for 09:00.
AbortInbox == {Body(<<"remind", "me", "daily">>)} \cup SubscribeCityBodies

NextAbort ==
  \/ \E raw \in AbortInbox, nlp \in NlpResults : HandleNlpCreate("a1", raw, nlp)
  \/ \E raw \in AbortInbox, dbOk \in BOOLEAN : HandleSubscribeCity("a1", raw, dbOk)
  \/ Tick
  \/ Tock

SpecAbort == InitKeyed /\ [][NextAbort]_vars

\* The guided flow at different instants of the day.
NextGuidedClock ==
  \/ \E a \in Addresses, raw \in GreetingBodies \cup TimeBodies \cup {Body(<<"call", "Mom">>)},
        dbOk \in BOOLEAN : HandleGuided(a, raw, dbOk)
  \/ Tock
  \/ NextMorning

SpecGuidedClock == Init /\ [][NextGuidedClock]_vars

\* Reminder sentences, with and without a relative time, from both users.
NlpInbox == {Body(<<"hi">>),
             Body(<<"remind", "me", "to", "call", "Mom">>),
             Body(<<"remind", "me", "daily">>),
             Body(<<"remind", "me", "to", "call", "Mom", "in", "5", "minutes">>)}

NextNlp ==
  \/ \E a \in Addresses, raw \in NlpInbox, nlp \in NlpResults :
       HandleNlpCreate(a, raw, nlp)
  \/ \E a \in Addresses, raw \in NlpInbox, dbOk \in BOOLEAN :
       HandleGuided(a, raw, dbOk)

SpecNlp == Init /\ [][NextNlp]_vars

\* Every path that writes a one-time reminder, with a whitespace-only body
\* and a sentence that holds nothing but the duration phrase among the inputs.
MessageInbox == {Body(<<"hi">>), Padded(<<>>), Body(<<"9:00">>),
                 Body(<<"remind", "me", "in", "5", "minutes">>),
                 Body(<<"snooze", "10", "minutes">>)}

NextMessages ==
  \/ \E a \in Addresses, raw \in MessageInbox, dbOk \in BOOLEAN :
       HandleSnooze(a, raw, dbOk)
  \/ \E a \in Addresses, raw \in MessageInbox, nlp \in NlpResults :
       HandleNlpCreate(a, raw, nlp)
  \/ \E a \in Addresses, raw \in MessageInbox, dbOk \in BOOLEAN :
       HandleGuided(a, raw, dbOk)

SpecMessages == Init /\ [][NextMessages]_vars

\* Creation by both paths for a first-contact user, snooze by both users,
\* and the sweeps.
SnapshotInbox == {Body(<<"hi">>), Body(<<"call", "Mom">>), Body(<<"9:00">>),
                  Body(<<"remind", "me", "to", "call", "Mom">>),
                  Body(<<"snooze", "10", "minutes">>)}

NextSnapshot ==
  \/ \E a \in Addresses, raw \in SnapshotInbox, dbOk \in BOOLEAN :
       HandleSnooze(a, raw, dbOk)
  \/ \E raw \in SnapshotInbox, nlp \in NlpResults : HandleNlpCreate("a2", raw, nlp)
  \/ \E raw \in SnapshotInbox, dbOk \in BOOLEAN : HandleGuided("a2", raw, dbOk)
  \/ Tick

SpecSnapshot == InitKeyed /\ [][NextSnapshot]_vars

\* cron.schedule("* * * * *"): the callback is called once in a minute; here
\* it runs to its end before anything else happens.
CronTick ==
  \E abortAt \in 0..3 :
    \E o1 \in [Ids(DueReminders(clock)) -> ItemOutcomes],
       o2 \in [Ids(FiredRecurring(clock)) -> ItemOutcomes],
       o3 \in [{s.userId : s \in WeatherCandidates(clock)} -> WeatherOutcomes] :
      /\ lastFire # clock \div UnitsPerMinute
      /\ lastFire' = clock \div UnitsPerMinute
      /\ abortAt = 3 => WeatherSweepRuns(clock)
      /\ TickBody(clock, abortAt, o1, o2, o3)
      /\ UNCHANGED <<clock, config, users, nextReminderId, nextRecurringId,
                     sessions, weatherCitySessions, inbound, requests, flow, wflow,
                     running, pending>>

\* Weather subscriptions of both users under the minute-by-minute schedule.
ForecastInbox == SubscribeCityBodies \cup CancelWeatherBodies

NextForecast ==
  \/ \E a \in Addresses, raw \in ForecastInbox, dbOk \in BOOLEAN :
       HandleSubscribeCity(a, raw, dbOk)
  \/ \E raw \in ForecastInbox, dbOk \in BOOLEAN :
       HandleCancelWeather("a1", raw, dbOk)
  \/ CronTick
  \/ Tock
  \/ NextMorning

SpecForecast == InitKeyed /\ [][NextForecast]_vars

\* The /whatsapp handler alone: every branch, two senders, a fixed clock.
Inbox ==
  {Body(<<"call", "Mom">>), Body(<<"help">>), Body(<<"list">>),
   Body(<<"snooze", "10", "minutes">>), Body(<<"snooze">>),
   Body(<<"cancel", "1">>), Body(<<"cancel", "recurring", "1">>),
   Body(<<"subscribe", "weather", "Pune">>), Body(<<"subscribe", "weather">>),
   Body(<<"cancel", "weather">>), Body(<<"remind", "me", "daily">>),
   Body(<<"remind", "me", "to", "call", "Mom", "in", "5", "minutes">>),
   Padded(<<>>), Body(<<>>)}

\* the first sender, an earlier user, uses the commands and reminder
\* sentences; the second, a new user, the guided flow
InboxOf(a) ==
  IF a = "a1" THEN Inbox
  ELSE {Body(<<"hi">>), Body(<<"9:00">>), Body(<<"call", "Mom">>)}

Next ==
  \/ \E a \in Addresses : \E raw \in InboxOf(a) : BadRequest(a, raw)
  \/ \E a \in Addresses : \E raw \in InboxOf(a) : UserError(a, raw)
  \/ \E a \in Addresses : \E raw \in InboxOf(a), dbOk \in BOOLEAN : HandleWeatherCity(a, raw, dbOk)
  \/ \E a \in Addresses : \E raw \in InboxOf(a), dbOk \in BOOLEAN : HandleSnooze(a, raw, dbOk)
  \/ \E a \in Addresses : \E raw \in InboxOf(a), dbOk \in BOOLEAN : HandleSubscribeCity(a, raw, dbOk)
  \/ \E a \in Addresses : \E raw \in InboxOf(a), dbOk \in BOOLEAN : HandleSubscribeBare(a, raw, dbOk)
  \/ \E a \in Addresses : \E raw \in InboxOf(a), dbOk \in BOOLEAN : HandleCancelWeather(a, raw, dbOk)
  \/ \E a \in Addresses : \E raw \in InboxOf(a), dbOk \in BOOLEAN : HandleCancelRecurring(a, raw, dbOk)
  \/ \E a \in Addresses : \E raw \in InboxOf(a), dbOk \in BOOLEAN : HandleCancelOneTime(a, raw, dbOk)
  \/ \E a \in Addresses : \E raw \in InboxOf(a) : HandleHelp(a, raw)
  \/ \E a \in Addresses : \E raw \in InboxOf(a), dbOk \in BOOLEAN : HandleList(a, raw, dbOk)
  \/ \E a \in Addresses : \E raw \in InboxOf(a), nlp \in NlpResults : HandleNlpCreate(a, raw, nlp)
  \/ \E a \in Addresses : \E raw \in InboxOf(a), dbOk \in BOOLEAN : HandleGuided(a, raw, dbOk)

Spec == InitKeyed /\ [][Next]_vars

\* The guided flow of two senders: greetings, texts, times, and the commands
\* and sentences that other branches take first.
GuidedInbox ==
  GreetingBodies \cup TimeBodies \cup
  {Body(<<"call", "Mom">>), Body(<<"help">>), Body(<<"list">>),
   Body(<<"cancel", "1">>), Body(<<"snooze", "10", "minutes">>),
   Body(<<"remind", "me", "to", "call", "Mom">>)}

NextGuided ==
  \/ \E a \in Addresses, raw \in GuidedInbox : UserError(a, raw)
  \/ \E a \in Addresses, raw \in GuidedInbox, dbOk \in BOOLEAN : HandleSnooze(a, raw, dbOk)
  \/ \E a \in Addresses, raw \in GuidedInbox, dbOk \in BOOLEAN : HandleCancelOneTime(a, raw, dbOk)
  \/ \E a \in Addresses, raw \in GuidedInbox : HandleHelp(a, raw)
  \/ \E a \in Addresses, raw \in GuidedInbox, dbOk \in BOOLEAN : HandleList(a, raw, dbOk)
  \/ \E a \in Addresses, raw \in GuidedInbox, nlp \in NlpResults : HandleNlpCreate(a, raw, nlp)
  \/ \E a \in Addresses, raw \in GuidedInbox, dbOk \in BOOLEAN : HandleGuided(a, raw, dbOk)

SpecGuided == Init /\ [][NextGuided]_vars

\* One-time reminders under a scheduler that keeps running: the callback is
\* called at every minute, the days pass, and again and again there is a tick
\* in which the store answers and every send and write succeeds.  Twilio is
\* configured, so that a send takes place at all.
LiveInbox == {Body(<<"remind", "me", "to", "call", "Mom">>), Body(<<"cancel", "1">>)}

TickClean ==
  /\ TickBody(clock, 0,
              [i \in Ids(DueReminders(clock)) |-> "ok"],
              [i \in Ids(FiredRecurring(clock)) |-> "ok"],
              [u \in {s.userId : s \in WeatherCandidates(clock)} |-> "ok"])
  /\ UNCHANGED <<clock, config, users, nextReminderId, nextRecurringId,
                 sessions, weatherCitySessions, inbound, requests, flow, wflow,
                 async>>

NextLive ==
  \/ \E raw \in LiveInbox, nlp \in NlpResults : HandleNlpCreate("a1", raw, nlp)
  \/ \E raw \in LiveInbox, dbOk \in BOOLEAN : HandleCancelOneTime("a1", raw, dbOk)
  \/ Tick
  \/ NextMorning
  \/ NextMonth

InitLive == InitKeyed /\ config.twilio

SpecLive ==
  /\ InitLive
  /\ [][NextLive]_vars
  /\ WF_vars(NextMorning \/ NextMonth)
  /\ WF_vars(TickClean)

\* Two senders side by side: each opens the guided flow and the city
\* question, creates reminders and a subscription, and cancels by id.
IsolationInbox ==
  {Body(<<"hi">>), Body(<<"call", "Mom">>), Body(<<"subscribe", "weather">>),
   Body(<<"cancel", "1">>), Body(<<"cancel", "recurring", "1">>),
   Body(<<"remind", "me", "to", "call", "Mom">>), Body(<<"remind", "me", "daily">>)}

NextIsolation ==
  \/ \E a \in Addresses, raw \in IsolationInbox, dbOk \in BOOLEAN : HandleWeatherCity(a, raw, dbOk)
  \/ \E a \in Addresses, raw \in IsolationInbox, dbOk \in BOOLEAN : HandleSubscribeBare(a, raw, dbOk)
  \/ \E a \in Addresses, raw \in IsolationInbox, dbOk \in BOOLEAN : HandleCancelRecurring(a, raw, dbOk)
  \/ \E a \in Addresses, raw \in IsolationInbox, dbOk \in BOOLEAN : HandleCancelOneTime(a, raw, dbOk)
  \/ \E a \in Addresses, raw \in IsolationInbox, nlp \in NlpResults : HandleNlpCreate(a, raw, nlp)
  \/ \E a \in Addresses, raw \in IsolationInbox, dbOk \in BOOLEAN : HandleGuided(a, raw, dbOk)

SpecIsolation == Init /\ [][NextIsolation]_vars

\* The commands of two senders, sent before, during and after the guided flow.
CommandBodies ==
  {Body(<<"snooze", "10", "minutes">>), Body(<<"subscribe", "weather", "Pune">>),
   Body(<<"subscribe", "weather">>), Body(<<"cancel", "weather">>),
   Body(<<"cancel", "1">>), Body(<<"cancel", "recurring", "1">>),
   Body(<<"help">>), Body(<<"list">>)}

CommandInbox == CommandBodies \cup {Body(<<"hi">>), Body(<<"call", "Mom">>)}

NextCommands ==
  \/ \E a \in Addresses, raw \in CommandInbox, dbOk \in BOOLEAN : HandleWeatherCity(a, raw, dbOk)
  \/ \E a \in Addresses, raw \in CommandInbox, dbOk \in BOOLEAN : HandleSnooze(a, raw, dbOk)
  \/ \E a \in Addresses, raw \in CommandInbox, dbOk \in BOOLEAN : HandleSubscribeCity(a, raw, dbOk)
  \/ \E a \in Addresses, raw \in CommandInbox, dbOk \in BOOLEAN : HandleSubscribeBare(a, raw, dbOk)
  \/ \E a \in Addresses, raw \in CommandInbox, dbOk \in BOOLEAN : HandleCancelWeather(a, raw, dbOk)
  \/ \E a \in Addresses, raw \in CommandInbox, dbOk \in BOOLEAN : HandleCancelRecurring(a, raw, dbOk)
  \/ \E a \in Addresses, raw \in CommandInbox, dbOk \in BOOLEAN : HandleCancelOneTime(a, raw, dbOk)
  \/ \E a \in Addresses, raw \in CommandInbox : HandleHelp(a, raw)
  \/ \E a \in Addresses, raw \in CommandInbox, dbOk \in BOOLEAN : HandleList(a, raw, dbOk)
  \/ \E a \in Addresses, raw \in CommandInbox, dbOk \in BOOLEAN : HandleGuided(a, raw, dbOk)

SpecCommands == Init /\ [][NextCommands]_vars

\* Two senders creating and cancelling one-time and recurring reminders.
CancelInbox == CancelBodies \cup {Body(<<"remind", "me", "to", "call", "Mom">>),
                                  Body(<<"remind", "me", "daily">>)}

NextCancel ==
  \/ \E a \in Addresses, raw \in CancelInbox, dbOk \in BOOLEAN :
       HandleCancelRecurring(a, raw, dbOk)
  \/ \E a \in Addresses, raw \in CancelInbox, dbOk \in BOOLEAN :
       HandleCancelOneTime(a, raw, dbOk)
  \/ \E a \in Addresses, raw \in CancelInbox, nlp \in NlpResults :
       HandleNlpCreate(a, raw, nlp)

SpecCancel == Init /\ [][NextCancel]_vars

\* Snooze commands of two senders while the clock moves.
NextSnooze ==
  \/ \E a \in Addresses, raw \in SnoozeBodies, dbOk \in BOOLEAN :
       HandleSnooze(a, raw, dbOk)
  \/ Tock

SpecSnooze == Init /\ [][NextSnooze]_vars

\* The weather commands of two senders.
WeatherInbox == SubscribeCityBodies \cup CancelWeatherBodies
                \cup SubscribeBareBodies \cup {Body(<<"Pune">>), Padded(<<>>)}

NextWeather ==
  \/ \E a \in Addresses, raw \in WeatherInbox, dbOk \in BOOLEAN :
       HandleWeatherCity(a, raw, dbOk)
  \/ \E a \in Addresses, raw \in WeatherInbox, dbOk \in BOOLEAN :
       HandleSubscribeCity(a, raw, dbOk)
  \/ \E a \in Addresses, raw \in WeatherInbox, dbOk \in BOOLEAN :
       HandleSubscribeBare(a, raw, dbOk)
  \/ \E a \in Addresses, raw \in WeatherInbox, dbOk \in BOOLEAN :
       HandleCancelWeather(a, raw, dbOk)

SpecWeather == Init /\ [][NextWeather]_vars

\* The callback and the cancel command, await by await: one sender creates
\* reminders and cancels them while cron fires every minute.
RaceInbox == OneTimeInbox \cup {Body(<<"cancel", "1">>)}

NextRace ==
  \/ \E raw \in RaceInbox, nlp \in NlpResults : HandleNlpCreate("a1", raw, nlp)
  \/ \E raw \in RaceInbox, dbOk \in BOOLEAN : CancelFind("a1", raw, dbOk)
  \/ \E p \in pending, dbOk \in BOOLEAN : CancelDelete(p, dbOk)
  \/ \E ok \in BOOLEAN : CronFire(ok)
  \/ \E t \in running, outcome \in ItemOutcomes : TickItem(t, outcome)
  \/ \E t \in running, abortAt \in {0, 2, 3} :
       \E o2 \in [Ids(FiredRecurring(t.now)) -> ItemOutcomes],
          o3 \in [{s.userId : s \in WeatherCandidates(t.now)} -> WeatherOutcomes] :
         TickFinish(t, abortAt, o2, o3)
  \/ Tock

SpecRace == InitKeyed /\ [][NextRace]_vars

\* The guided flow with a webhook that delivers a message twice.
DuplicateInbox == {Body(<<"hi">>), Body(<<"call", "Mom">>), Body(<<"9:00">>)}

NextDuplicate ==
  \/ \E a \in Addresses, raw \in DuplicateInbox, dbOk \in BOOLEAN : HandleGuided(a, raw, dbOk)
  \/ \E a \in Addresses, raw \in DuplicateInbox : TimeReceive(a, raw)
  \/ \E p \in pending : TimeRedeliver(p)
  \/ \E p \in pending, dbOk \in BOOLEAN : TimeCommit(p, dbOk)

SpecDuplicate == Init /\ [][NextDuplicate]_vars

\* The weather commands of two senders, the subscribing branches both in
\* one piece and await by await.
SubscribeInbox == SubscribeCityBodies \cup CancelWeatherBodies \cup SubscribeBareBodies
                  \cup {Body(<<"subscribe", "weather", "Delhi">>), Body(<<"Pune">>)}

NextSubscribe ==
  \/ \E a \in Addresses, raw \in SubscribeInbox, dbOk \in BOOLEAN :
       HandleWeatherCity(a, raw, dbOk)
  \/ \E a \in Addresses, raw \in SubscribeInbox, dbOk \in BOOLEAN :
       HandleSubscribeCity(a, raw, dbOk)
  \/ \E a \in Addresses, raw \in SubscribeInbox, dbOk \in BOOLEAN :
       HandleSubscribeBare(a, raw, dbOk)
  \/ \E a \in Addresses, raw \in SubscribeInbox, dbOk \in BOOLEAN :
       HandleCancelWeather(a, raw, dbOk)
  \/ \E a \in Addresses, raw \in SubscribeInbox, dbOk \in BOOLEAN :
       SubscribeFind(a, raw, dbOk)
  \/ \E p \in pending, dbOk \in BOOLEAN : SubscribeWrite(p, dbOk)

SpecSubscribe == Init /\ [][NextSubscribe]_vars

\* ------------------------------------------------------------------ claims
TickSends(l) == IF config.twilio THEN l.due ELSE {}

C3_DailyNotFiredTwiceADay ==
  [][last'.op = "tick" =>
       \A rr \in recurring :
         (/\ rr.active
          /\ rr.recurrenceType = "DAILY"
          /\ rr.lastTriggeredAt # NoTime
          /\ DayIndex(rr.lastTriggeredAt) = DayIndex(clock))
         => rr.id \notin last'.fired /\ rr \in recurring']_vars

C3_Witness ==
  /\ last.op = "tick"
  /\ last.aborted = 0
  /\ \E rr \in recurring :
       /\ rr.active
       /\ rr.recurrenceType = "DAILY"
       /\ rr.timeOfDay = <<getHours(last.now), getMinutes(last.now)>>
       /\ rr.lastTriggeredAt # NoTime
       /\ rr.lastTriggeredAt < last.now
       /\ DayIndex(rr.lastTriggeredAt) = DayIndex(last.now)
       /\ rr.id \notin last.fired

\* C4: a tick fires a MONTHLY recurring reminder only if now's HH:MM equals
\* its timeOfDay, now's day of month equals its dayOfMonth, and
\* lastTriggeredAt is null or in another (year, month) than now; a reminder
\* with dayOfMonth 31 is never fired during a 30-day month.
C4_MonthlyFiresOnItsDayOnly ==
  [][last'.op = "tick" =>
       \A rr \in recurring :
         (rr.recurrenceType = "MONTHLY" /\ rr.id \in last'.fired) =>
           LET today == DateOf(DayIndex(clock))
               then == DateOf(DayIndex(rr.lastTriggeredAt))
           IN /\ rr.timeOfDay = <<MinuteOfDay(clock) \div 60, MinuteOfDay(clock) % 60>>
              /\ rr.dayOfMonth = today.d
              /\ \/ rr.lastTriggeredAt = NoTime
                 \/ <<then.y, then.m>> # <<today.y, today.m>>
              /\ rr.dayOfMonth = 31 => DaysInMonth(today.y, today.m) # 30]_vars

C4_Witness ==
  /\ last.op = "tick"
  /\ last.aborted = 0
  /\ DaysInMonth(getFullYear(last.now), getMonth(last.now) + 1) = 30
  /\ \E rr \in recurring :
       /\ rr.active
       /\ rr.recurrenceType = "MONTHLY"
       /\ rr.dayOfMonth = 31
       /\ rr.timeOfDay = <<getHours(last.now), getMinutes(last.now)>>
       /\ rr.id \notin last.fired

\* C5 (as claimed): after a tick in which the send for a fired recurring
\* reminder failed, its lastTriggeredAt equals that tick's now.
C5_MarkedAfterFailedSend ==
  last.op = "tick" =>
    \A rr \in recurring :
      rr.id \in last.rSendFailed => rr.lastTriggeredAt = last.now

\* C5 (amended): a fired recurring reminder gets lastTriggeredAt = now exactly
\* when its send did not throw and the update succeeded; after a tick in
\* which its send failed the row, lastTriggeredAt included, is unchanged.
C5_MarkedOnlyAfterSendReturned ==
  [][last'.op = "tick" =>
       \A rr \in recurring :
         rr.id \in last'.fired =>
           IF rr.id \in last'.rSendFailed \cup last'.rUpdateFailed
           THEN rr \in recurring'
           ELSE [rr EXCEPT !.lastTriggeredAt = clock] \in recurring']_vars

C5_Witness ==
  /\ last.op = "tick"
  /\ \E rr \in recurring :
       /\ rr.id \in last.rSendFailed
       /\ rr.lastTriggeredAt # last.now
C7_RoundTripAnyText ==
  \A a \in Addresses :
    (flow[a].step = 3 /\ flow[a].ok /\ ~flow[a].wcs) =>
      flow[a].made = <<flow[a].m>> /\ sessions[a] = NoSession

\* C7 (amended): greeting, then a non-empty text M, then a valid time T leave
\* exactly one new reminder, with message M, and no session, when no
\* WeatherCitySession is open at the greeting, M is not a greeting, M is not
\* taken by a command branch (snooze, weather, cancel, help, list), M is not
\* a reminder sentence sent by a user with a positive usage counter, and user
\* resolution and the store do not fail.
C7_RoundTripPlainText ==
  \A a \in Addresses :
    (flow[a].step = 3 /\ flow[a].ok /\ ~flow[a].wcs /\ flow[a].plain) =>
      flow[a].made = <<flow[a].m>> /\ sessions[a] = NoSession

C7_Witness ==
  \E a \in Addresses :
    /\ flow[a].step = 3 /\ flow[a].ok /\ ~flow[a].wcs /\ flow[a].plain
    /\ flow[a].exp
    /\ \E r \in reminders : r.userId = a /\ r.message = flow[a].m

\* C8: cancel <id> and cancel recurring <id> sent by B never delete or
\* deactivate a record of another user A, and when the id names a record of
\* another user B is told it was not found (the lookup itself not failing).
C8_CancelOnlyOwnRecords ==
  [][(last'.op = "msg" /\ last'.branch \in {"cancel_onetime", "cancel_recurring"}) =>
       LET b == inbound'.addr
           id == IF inbound'.words[2] = "recurring" THEN inbound'.words[3]
                 ELSE inbound'.words[2]
           others == IF last'.branch = "cancel_onetime"
                     THEN {r.id : r \in {x \in reminders : x.userId # b}}
                     ELSE {r.id : r \in {x \in recurring : x.userId # b}}
       IN /\ \A r \in reminders : r.userId # b => r \in reminders'
          /\ \A rr \in recurring : rr.userId # b => rr \in recurring'
          /\ (NumberOf(id) \in others /\ last'.reply # "cancel_error")
               => last'.reply = "not_found"]_vars

C8_Witness ==
  /\ last.op = "msg"
  /\ last.branch = "cancel_onetime"
  /\ last.reply = "not_found"
  /\ \E r \in reminders : r.id = last.target /\ r.userId # last.addr

\* C9: a well-formed snooze from a user without a stored last-reminder
\* message creates no record and is answered with the corrective message;
\* from a user with a stored last-reminder message and time it creates
\* exactly one reminder, with that message, at now + the snooze offset (the
\* create itself not failing).
C9_SnoozeGuard ==
  [][(/\ last'.op = "msg"
      /\ last'.branch = "snooze"
      /\ last'.reply # "snooze_error"
      /\ inbound'.words \in {<<"snooze", "10", "minutes">>, <<"snooze", "1", "h">>}) =>
       LET u == users[inbound'.addr]
           minutes == IF inbound'.words[3] = "h" THEN 60 ELSE 10
       IN IF u.lastReminderMessage = <<>>
          THEN reminders' = reminders /\ last'.reply = "snooze_no_recent"
          ELSE \E r \in reminders' \ reminders :
                 /\ reminders' = reminders \cup {r}
                 /\ r.userId = inbound'.addr
                 /\ r.message = u.lastReminderMessage
                 /\ r.time = clock + minutes * UnitsPerMinute]_vars

C9_Witness ==
  /\ last.op = "msg"
  /\ last.reply = "snoozed"
  /\ inbound.words = <<"snooze", "10", "minutes">>
  /\ \E r \in reminders :
       /\ r.userId = inbound.addr
       /\ r.message = users[inbound.addr].lastReminderMessage
       /\ r.time = last.now + 10 * UnitsPerMinute

\* C10: after subscribe weather <city> and cancel weather both succeeded, a
\* bare subscribe weather leaves the sender's one subscription record active
\* with the city stored by the first command, and no WeatherCitySession.
C10_BareSubscribeReactivates ==
  \A a \in Addresses :
    (wflow[a].step = 3 /\ wflow[a].good) =>
      /\ Cardinality(SubOf(a)) = 1
      /\ \A s \in SubOf(a) : s.active /\ s.city = wflow[a].city
      /\ wflow[a].city # <<>>
      /\ ~weatherCitySessions[a]

C10_Witness ==
  \E a \in Addresses :
    /\ wflow[a].step = 3 /\ wflow[a].good
    /\ \E s \in SubOf(a) : s.active /\ s.city = <<"Pune">>

\* C11: while an address has the WeatherCitySession flag (set by a bare
\* subscribe weather from a user with no stored city), its next message with
\* non-empty text, once the user is resolved, takes the awaiting-city branch
\* whatever its words are: no reminder, recurring reminder or Session entry
\* changes, the flag is cleared whether the store write succeeded or failed,
\* and on success the sender's subscription holds exactly the words sent,
\* active.
C11_CityCapturedFirst ==
  [][\A a \in Addresses :
       (/\ requests' = requests + 1
        /\ inbound'.addr = a
        /\ inbound'.words # <<>>
        /\ weatherCitySessions[a]
        /\ last'.branch # "user_error") =>
         /\ last'.branch = "weather_city"
         /\ last'.reply \in {"subscribed", "weather_error"}
         /\ ~weatherCitySessions'[a]
         /\ sessions' = sessions
         /\ reminders' = reminders
         /\ recurring' = recurring
         /\ last'.reply = "weather_error" => weatherSubs' = weatherSubs
         /\ last'.reply = "subscribed" =>
              /\ \E s \in weatherSubs' :
                   s.userId = a /\ s.city = inbound'.words /\ s.active
              /\ \A s, t \in weatherSubs' : s.userId = t.userId => s = t]_vars

C11_Witness ==
  /\ last.op = "msg"
  /\ last.branch = "weather_city"
  /\ last.reply = "subscribed"
  /\ inbound.words = <<"cancel", "weather">>
  /\ ~weatherCitySessions[inbound.addr]
  /\ \E s \in SubOf(inbound.addr) : s.city = <<"cancel", "weather">> /\ s.active

\* C12: on the NLP, relative-time and guided-flow paths a creation attempt
\* either adds exactly one record of the sender and raises the sender's
\* reminderCount by one, or adds no record and leaves the counter alone.
C12_CreateAndCountTogether ==
  [][(requests' = requests + 1
      /\ last'.branch \in {"nlp", "greeting", "session", "fallback"}) =>
       LET a == inbound'.addr
           created == (reminders' \ reminders) \cup (recurring' \ recurring)
       IN /\ reminders \subseteq reminders' /\ recurring \subseteq recurring'
          /\ \A b \in Addresses \ {a} : users'[b] = users[b]
          /\ \/ /\ Cardinality(created) = 1
                /\ \A r \in created : r.userId = a
                /\ users'[a].reminderCount = users[a].reminderCount + 1
             \/ /\ created = {}
                /\ users'[a].reminderCount = users[a].reminderCount]_vars

C12_Witness ==
  /\ last.op = "msg"
  /\ last.reply = "created_relative"
  /\ users[last.addr].reminderCount = SnapshotUser.reminderCount + 1
  /\ \E r \in reminders : r.userId = last.addr /\ r.message = <<"call", "Mom">>

\* records of user a written by the step
CreatedFor(a) ==
  {r \in reminders' : r.userId = a /\ r.id \notin {x.id : x \in reminders}}
    \cup {r \in recurring' : r.userId = a /\ r.id \notin {x.id : x \in recurring}}

C14_TicksExclusive ==
  /\ Cardinality(running) <= 1
  /\ \A t, u \in running : t # u => Ids(t.todo) \cap Ids(u.todo) = {}

\* C15: a cancel <id> whose row was found by the existence check and was
\* deleted by the scheduler before the cancel's own delete is answered with
\* the not-found reply, not with the error reply.
C15_CancelAfterSweepNotFound ==
  (/\ last.op = "msg"
   /\ last.branch = "cancel_onetime"
   /\ last.gone
   /\ \A p \in pending : (p.kind = "cancel" /\ p.target = last.target)
                           => p.reply # "canceled")
    => last.reply = "not_found"

\* C16: once a cancel of a one-time reminder has been confirmed to its
\* owner, no pass of the scheduler's one-time loop sends that reminder.
C16_NoSendAfterCancelConfirmed ==
  [][(last'.op = "tick_item" /\ last'.sends = 1) =>
       ~\E p \in pending : /\ p.kind = "cancel"
                           /\ p.pc = "done"
                           /\ p.reply = "canceled"
                           /\ p.target = last'.target]_vars

\* C17: the deliveries of one inbound time message to an address in
\* awaiting_time create at most one OneTimeReminder between them.
C17_OneReminderPerMessage ==
  \A p, q \in pending :
    (/\ p.kind = "time" /\ q.kind = "time"
     /\ p.msg = q.msg
     /\ p.reply = "guided_saved" /\ q.reply = "guided_saved") => p = q

\* C18: whatever the order and the interleaving of subscribe weather <city>,
\* bare subscribe weather, city capture and cancel weather, a user has at
\* most one WeatherSubscription row; a subscribe with a city that is
\* answered "subscribed" while the user has a row leaves that one row with
\* the new city, active, and adds none.
C18_OneSubscriptionPerUser ==
  /\ [](\A a \in Addresses : Cardinality(SubOf(a)) <= 1)
  /\ [][\A a \in Addresses :
          (/\ last'.op = "msg"
           /\ last'.addr = a
           /\ last'.branch = "subscribe_city"
           /\ last'.reply = "subscribed"
           /\ SubOf(a) # {}) =>
            /\ Cardinality(weatherSubs') = Cardinality(weatherSubs)
            /\ \A s \in weatherSubs' :
                 s.userId = a => s.active /\ s.city = CityOf(inbound'.words)]_vars

C18_Witness ==
  /\ last.op = "msg"
  /\ last.branch = "subscribe_city"
  /\ last.reply = "subscribed"
  /\ inbound.words = <<"subscribe", "weather", "Delhi">>
  /\ \E p \in pending : /\ p.addr = last.addr /\ p.reply = "subscribed"
                        /\ p.message = <<"Pune">>
  /\ SubOf(last.addr) = {[userId |-> last.addr, city |-> <<"Delhi">>,
                          active |-> TRUE, lastSentAt |-> NoTime]}

\* C19: every RecurringReminder row has dayOfMonth set, to a day 1..31, if
\* and only if its recurrence kind is MONTHLY.
C19_DayOfMonthIffMonthly ==
  \A rr \in recurring :
    /\ rr.recurrenceType \in {"DAILY", "MONTHLY"}
    /\ rr.dayOfMonth \in (1..31) \cup {NoDay}
    /\ rr.dayOfMonth # NoDay <=> rr.recurrenceType = "MONTHLY"

C19_Witness ==
  /\ \E rr \in recurring : rr.recurrenceType = "MONTHLY" /\ rr.dayOfMonth = 31
  /\ last.op = "tick"
  /\ last.fired # {}

\* C20: a time text that parses, sent by an address in awaiting_time and
\* reaching the session branch, leaves the address without a Session entry
\* whether the transaction committed or threw; after a failed save no
\* reminder was created and the usage counter is unchanged.
C20_SessionRemovedEitherWay ==
  [][\A a \in Addresses :
       (/\ requests' = requests + 1
        /\ inbound'.addr = a
        /\ sessions[a].stage = "awaiting_time"
        /\ last'.branch = "session"
        /\ ParseTimeOfDay(inbound'.words) # NoTime) =>
         /\ last'.reply \in {"guided_saved", "guided_save_failed"}
         /\ sessions'[a] = NoSession
         /\ last'.reply = "guided_save_failed" =>
              /\ reminders' = reminders
              /\ users'[a].reminderCount = users[a].reminderCount]_vars

C20_Witness ==
  /\ last.op = "msg"
  /\ last.reply = "guided_save_failed"
  /\ sessions[last.addr] = NoSession
  /\ ~\E r \in reminders : r.userId = last.addr

\* the time texts of the inbox that moment parses in strict mode
ValidTimeTexts == {b.words : b \in TimeBodies}

\* C21 as stated: any message that is not a valid time, sent by an address
\* in awaiting_time, leaves its Session entry, its reminders and its usage
\* counter as they were.
C21_InvalidTimeChangesNothing ==
  [][\A a \in Addresses :
       (/\ requests' = requests + 1
        /\ inbound'.addr = a
        /\ sessions[a].stage = "awaiting_time"
        /\ inbound'.words # <<>>
        /\ inbound'.words \notin ValidTimeTexts) =>
         /\ sessions'[a] = sessions[a]
         /\ CreatedFor(a) = {}
         /\ users'[a].reminderCount = users[a].reminderCount]_vars

\* C21: a message that is not a valid time and reaches the session branch
\* of an address in awaiting_time is answered with the re-prompt and leaves
\* the Session entry, the reminders and the usage counter as they were.
C21_InvalidTimeInSessionBranch ==
  [][\A a \in Addresses :
       (/\ requests' = requests + 1
        /\ inbound'.addr = a
        /\ sessions[a].stage = "awaiting_time"
        /\ last'.branch = "session"
        /\ inbound'.words \notin ValidTimeTexts) =>
         /\ last'.reply = "time_invalid"
         /\ sessions'[a] = sessions[a]
         /\ reminders' = reminders
         /\ recurring' = recurring
         /\ users'[a].reminderCount = users[a].reminderCount]_vars

C21_Witness ==
  /\ last.op = "msg"
  /\ last.reply = "time_invalid"
  /\ inbound.words = <<"call", "Mom">>
  /\ sessions[last.addr].stage = "awaiting_time"
  /\ sessions[last.addr].message # <<>>
  /\ ~\E r \in reminders : r.userId = last.addr

GreetingWords == {<<"hi">>, <<"hello">>, <<"hey">>}

C23_NlpCreateEndsSession ==
  [][\A a \in Addresses :
       (/\ requests' = requests + 1
        /\ inbound'.addr = a
        /\ last'.branch = "nlp"
        /\ CreatedFor(a) # {}
        /\ sessions[a].stage # "none") =>
         sessions'[a] = NoSession]_vars

C25_ItemFailureIsLocal ==
  [][last'.op = "tick" =>
       /\ last'.aborted # 1 =>
            \A r \in reminders : r.time <= last'.now =>
              /\ r.id \in last'.due
              /\ r.id \in (last'.sendFailed \cup last'.deleteFailed)
                   <=> r \in reminders'
       /\ last'.aborted \notin {1, 2} =>
            \A rr \in FiredRecurring(last'.now) :
              /\ rr.id \in last'.fired
              /\ IF rr.id \in (last'.rSendFailed \cup last'.rUpdateFailed)
                 THEN rr \in recurring'
                 ELSE [rr EXCEPT !.lastTriggeredAt = last'.now] \in recurring']_vars

C25_Witness ==
  /\ last.op = "tick"
  /\ last.due = {1, 2}
  /\ last.sendFailed = {1}
  /\ last.deleteFailed = {}
  /\ 2 \in delivered
  /\ {r.id : r \in reminders} = {1}

\* C26 (as claimed): whenever the weather lookup for a subscription succeeds
\* in a tick, that subscription's lastSentAt is that tick's now afterwards.
C26_StampedWheneverFound ==
  [][last'.op = "tick" =>
       \A s \in weatherSubs : s.userId \in last'.wFound =>
         [s EXCEPT !.lastSentAt = last'.now] \in weatherSubs']_vars

\* C26 (amended): the weather sweep sends only in ticks whose now reads 09:00
\* and only to active subscriptions whose lastSentAt is null or on another
\* calendar day; lastSentAt becomes now when the lookup succeeded and neither
\* the send nor the update threw, and is unchanged otherwise (lookup failed,
\* send failed, update failed, subscription not selected); with one tick a
\* minute no subscription gets two weather updates on one calendar day.
C26_WeatherOncePerDay ==
  /\ [][last'.op = "tick" =>
          /\ last'.wLookedUp # {} => getCurrentTimeString(last'.now) = <<9, 0>>
          /\ last'.wSent \subseteq last'.wFound
          /\ last'.wFound \subseteq last'.wLookedUp
          /\ \A u \in last'.wLookedUp :
               \E s \in weatherSubs :
                 /\ s.userId = u
                 /\ s.active
                 /\ s.lastSentAt = NoTime \/ ~isSameDay(last'.now, s.lastSentAt)
          /\ \A s \in weatherSubs :
               IF s.userId \in last'.wFound \ last'.wFailed
               THEN [s EXCEPT !.lastSentAt = last'.now] \in weatherSubs'
               ELSE s \in weatherSubs']_vars
  /\ [](\A f, g \in forecasts :
          (f.userId = g.userId /\ isSameDay(f.now, g.now)) => f = g)

C26_Witness ==
  /\ last.op = "tick"
  /\ last.wLookedUp = {"a1", "a2"}
  /\ last.wFound = {"a1"}
  /\ last.wFailed = {}
  /\ last.wSent = {"a1"}
  /\ \E s \in weatherSubs : s.userId = "a1" /\ s.lastSentAt = last.now
  /\ \E s \in weatherSubs : s.userId = "a2" /\ s.lastSentAt = NoTime
  /\ [userId |-> "a1", now |-> last.now] \in forecasts
  /\ Cardinality(forecasts) = 2

\* C27: no handler and no tick removes a recurring reminder; a successful
\* cancel recurring <id> changes only the active flag of the caller's row
\* with that id, to false; a row that is inactive stays inactive, and a tick
\* fires only rows that were active when it selected them, so no tick that
\* starts after the cancel fires the reminder.
C27_RecurringOnlyDeactivated ==
  [][/\ \A rr \in recurring :
          \E r2 \in recurring' : r2.id = rr.id /\ (~rr.active => ~r2.active)
     /\ (last'.op = "msg" /\ last'.branch = "cancel_recurring"
           /\ last'.reply = "canceled") =>
          \A rr \in recurring :
            IF rr.id = last'.target
            THEN rr.userId = last'.addr /\ [rr EXCEPT !.active = FALSE] \in recurring'
            ELSE rr \in recurring'
     /\ last'.op = "tick" =>
          \A i \in last'.fired : \E rr \in recurring : rr.id = i /\ rr.active]_vars

C27_Witness ==
  /\ last.op = "tick"
  /\ last.aborted = 0
  /\ last.fired = {}
  /\ \E rr \in recurring :
       /\ ~rr.active
       /\ rr.timeOfDay = getCurrentTimeString(last.now)
       /\ shouldTrigger(rr, last.now)

\* C28 (as claimed): for an address in awaiting_message, any non-empty
\* message of a resolved user moves the session to awaiting_time with that
\* message as the pending text.
C28_AnyMessageBecomesPending ==
  [][\A a \in Addresses :
       (/\ requests' = requests + 1
        /\ inbound'.addr = a
        /\ last'.branch # "user_error"
        /\ sessions[a].stage = "awaiting_message"
        /\ inbound'.words # <<>>) =>
         sessions'[a] = [stage |-> "awaiting_time", message |-> inbound'.words]]_vars

\* C28 (amended): for an address in awaiting_message with no open
\* weather-city session, a non-empty message that is not a greeting, is not
\* taken by a command branch and does not make the NLP path create a reminder
\* moves the session to awaiting_time with the pending text equal to the
\* message, letter case kept, and creates nothing; a greeting leaves the
\* session in awaiting_message, and a command leaves the session as it was.
C28_PlainMessageBecomesPending ==
  [][\A a \in Addresses :
       (/\ requests' = requests + 1
        /\ inbound'.addr = a
        /\ last'.branch # "user_error"
        /\ sessions[a].stage = "awaiting_message"
        /\ inbound'.words # <<>>) =>
         IF toLowerCase(inbound'.words) \in GreetingWords
         THEN sessions'[a] = [stage |-> "awaiting_message", message |-> <<>>]
         ELSE IF Route(a, Body(inbound'.words)) # "flow"
         THEN sessions'[a] = sessions[a]
         ELSE IF last'.branch = "nlp"
         THEN CreatedFor(a) # {}
         ELSE /\ sessions'[a] =
                   [stage |-> "awaiting_time", message |-> inbound'.words]
              /\ last'.reply = "ask_time"
              /\ CreatedFor(a) = {}]_vars

C28_Witness ==
  /\ last.op = "msg"
  /\ last.reply = "ask_time"
  /\ inbound.words = <<"call", "Mom">>
  /\ sessions[last.addr] = [stage |-> "awaiting_time", message |-> <<"call", "Mom">>]

\* C29: for a message that no command branch consumed, the NLP-first path is
\* tried exactly when the text contains "remind" and the address has no
\* session or the usage counter is positive; the NLP path creates a reminder
\* only then, and a new user with an open session who sends such a text is
\* answered by the session machine without the NLP path being tried.
C29_NlpFirstRouting ==
  [][\A a \in Addresses :
       (/\ requests' = requests + 1
        /\ inbound'.addr = a
        /\ last'.branch \in {"nlp", "greeting", "session", "fallback"}) =>
         LET remind == \E i \in 1..Len(inbound'.words) :
                         ToLowerWord(inbound'.words[i]) \in {"remind", "reminder"}
             open == sessions[a].stage # "none"
             experienced == users[a].reminderCount > 0
         IN /\ last'.nlpTried <=> (remind /\ (~open \/ experienced))
            /\ last'.branch = "nlp" => last'.nlpTried
            /\ (remind /\ open /\ ~experienced) =>
                 /\ last'.branch = "session"
                 /\ CreatedFor(a) = {} \/ last'.reply = "guided_saved"]_vars

C29_Witness ==
  /\ last.op = "msg"
  /\ last.branch = "session"
  /\ last.reply = "ask_time"
  /\ ~last.nlpTried
  /\ inbound.words = <<"remind", "me", "to", "call", "Mom">>
  /\ users[last.addr].reminderCount = 0
  /\ sessions[last.addr].message = inbound.words

\* C30 (as claimed): when the query of the one-time sweep or of the recurring
\* sweep fails in a tick, the later sweeps of that tick still run: the
\* recurring reminders that should fire are fired, and at 09:00 the weather
\* candidates are looked up.
C30_LaterSweepsStillRun ==
  [][(last'.op = "tick" /\ last'.aborted \in {1, 2}) =>
       /\ last'.aborted = 1 => last'.fired = Ids(FiredRecurring(last'.now))
       /\ WeatherSweepRuns(last'.now) =>
            last'.wLookedUp = {s.userId : s \in WeatherCandidates(last'.now)}]_vars

\* C30 (amended): the three sweeps share one try block: when the query of a
\* sweep fails, that sweep and the later sweeps of the same tick do nothing
\* (nothing is fired, looked up or written by them), the error is caught,
\* and the rows are left for the next tick.
C30_QueryFailureEndsTheTick ==
  [][(last'.op = "tick" /\ last'.aborted # 0) =>
       /\ last'.wLookedUp = {} /\ last'.wSent = {}
       /\ weatherSubs' = weatherSubs
       /\ last'.aborted \in {1, 2} => (last'.fired = {} /\ recurring' = recurring)
       /\ last'.aborted = 1 => (last'.due = {} /\ reminders' = reminders)]_vars

C30_Witness ==
  /\ last.op = "tick"
  /\ last.aborted = 2
  /\ last.fired = {}
  /\ last.wLookedUp = {}
  /\ FiredRecurring(last.now) # {}
  /\ WeatherSweepRuns(last.now)
  /\ WeatherCandidates(last.now) # {}

\* C31: a tick fires a recurring reminder only when the tick's now reads
\* exactly the reminder's timeOfDay, so a DAILY reminder whose minute went by
\* without a tick is not fired by a later tick of that day; a tick whose
\* one-time query succeeds selects every one-time reminder whose fire time is
\* not after now, however long ago it passed.
C31_ExactMinuteVersusCatchUp ==
  [][last'.op = "tick" =>
       /\ \A rr \in recurring : rr.id \in last'.fired =>
            /\ rr.timeOfDay = <<getHours(last'.now), getMinutes(last'.now)>>
            /\ rr.active
       /\ last'.aborted # 1 =>
            \A r \in reminders : r.time <= last'.now => r.id \in last'.due]_vars

C31_Witness ==
  /\ last.op = "tick"
  /\ last.aborted = 0
  /\ getCurrentTimeString(last.now) = <<9, 1>>
  /\ last.fired = {}
  /\ \E rr \in recurring :
       /\ rr.recurrenceType = "DAILY"
       /\ rr.active
       /\ rr.timeOfDay = <<9, 0>>
       /\ rr.lastTriggeredAt = NoTime
  /\ \E i \in last.due : attempts[i] = 1 /\ i \in delivered

\* C32: the reminder the guided flow saves for a time of day T fires at T on
\* the day of now when that instant is not before now and at T on the next
\* day otherwise; it is never before now and never later than the day after
\* now's day.
C32_TodayOrTomorrow ==
  [][(last'.op = "msg" /\ last'.reply = "guided_saved") =>
       \A r \in CreatedFor(last'.addr) :
         LET T == ParseTimeOfDay(inbound'.words)
             today == DayIndex(clock) * DayUnits + T * UnitsPerMinute
         IN /\ T # NoTime
            /\ MinuteOfDay(r.time) = T
            /\ r.time % UnitsPerMinute = 0
            /\ r.time >= clock
            /\ DayIndex(r.time) \in {DayIndex(clock), DayIndex(clock) + 1}
            /\ DayIndex(r.time) = DayIndex(clock) <=> today >= clock]_vars

C32_Witness ==
  /\ last.op = "msg"
  /\ last.reply = "guided_saved"
  /\ inbound.words = <<"9:00">>
  /\ MinuteOfDay(last.now) = 9 * 60
  /\ last.now % UnitsPerMinute # 0
  /\ \E r \in reminders :
       /\ r.userId = last.addr
       /\ r.time = At(DayIndex(last.now) + 1, 9 * 60)

\* C33: the NLP path writes a record from the intent-resolution result only
\* when the result is an object with intent create_reminder, a message, a
\* datetime and confidence of at least 0.6; with any other result, null
\* included, it writes the record of the relative-time parser; when the path
\* was tried and wrote nothing, no record is created, the counter is
\* unchanged and the greeting, session or fallback branch answers.
C33_NlpAcceptOrRelative ==
  [][\A a \in Addresses :
       (requests' = requests + 1 /\ inbound'.addr = a /\ last'.nlpTried) =>
         LET p == last'.nlp
             good == /\ p.parsed
                     /\ p.intent = "create_reminder"
                     /\ p.reminderMessage # <<>>
                     /\ p.datetime # NoTime
                     /\ p.confidence >= 6
             new1 == {r \in reminders' : r.id \notin Ids(reminders)}
             new2 == {r \in recurring' : r.id \notin Ids(recurring)}
         IN IF last'.reply \in {"created_onetime", "created_daily", "created_monthly"}
            THEN /\ good
                 /\ \A r \in new1 \cup new2 : r.message = p.reminderMessage
                 /\ \A r \in new1 : r.time = p.datetime
                 /\ Cardinality(new1 \cup new2) = 1
            ELSE IF last'.reply = "created_relative"
            THEN /\ ~good
                 /\ new2 = {}
                 /\ Cardinality(new1) = 1
                 /\ \A r \in new1 : r.time > clock /\ r.message # <<>>
            ELSE /\ new1 = {} /\ new2 = {}
                 /\ users'[a].reminderCount = users[a].reminderCount
                 /\ last'.branch \in {"greeting", "session", "fallback"}]_vars

C33_Witness ==
  /\ last.op = "msg"
  /\ last.reply = "created_relative"
  /\ last.nlp.parsed
  /\ last.nlp.intent = "create_reminder"
  /\ last.nlp.reminderMessage # <<>>
  /\ last.nlp.datetime # NoTime
  /\ last.nlp.confidence = 5
  /\ \E r \in reminders : r.userId = last.addr /\ r.time = last.now + 5 * UnitsPerMinute

\* C34: every one-time reminder in the store has a non-empty message text.
C34_NoEmptyMessage ==
  \A r \in reminders : r.message # <<>>

\* C35: no step changes a user's lastReminderMessage or lastReminderTime, so
\* a user whose row was created by first contact never has a snapshot, and a
\* snooze from such a user creates no reminder.
C35_SnapshotNeverWritten ==
  /\ [][\A a \in Addresses :
          /\ users'[a].lastReminderMessage = users[a].lastReminderMessage
          /\ users'[a].lastReminderTime = users[a].lastReminderTime]_vars
  /\ [](users["a2"].lastReminderMessage = <<>> /\ users["a2"].lastReminderTime = NoTime)
  /\ [][(last'.op = "msg" /\ last'.branch = "snooze" /\ last'.addr = "a2") =>
          /\ reminders' = reminders
          /\ last'.reply # "snoozed"]_vars

C35_Witness ==
  /\ last.op = "msg"
  /\ last.addr = "a2"
  /\ last.reply = "snooze_no_recent"
  /\ users["a2"].reminderCount > 0
  /\ users["a2"].lastReminderMessage = <<>>
  /\ \E i \in delivered : TRUE

\* C36: a tick reaches, sends and removes only one-time reminders whose fire
\* time is not after the tick's `now`; a reminder whose fire time is later
\* is neither sent nor removed by that tick.
C36_NeverSentEarly ==
  [][last'.op = "tick" =>
       \A r \in reminders :
         r.time > last'.now =>
           /\ r.id \notin last'.due
           /\ attempts'[r.id] = attempts[r.id]
           /\ (r.id \in delivered' <=> r.id \in delivered)
           /\ r \in reminders']_vars

C36_Witness ==
  /\ last.op = "tick"
  /\ last.due # {}
  /\ \E i \in last.due : i \in delivered
  /\ \E r \in reminders : r.time > last.now /\ r.id \notin delivered

\* C37: a message handled by a command branch (snooze, subscribe weather
\* with or without a city, cancel weather, cancel <id>, cancel recurring
\* <id>, help, list) leaves every Session entry as it was; and a command
\* text from a sender who is not awaiting a city is handled by its command
\* branch whether or not that sender has an open Session entry.
CommandBranches ==
  {"snooze", "subscribe_city", "subscribe_bare", "cancel_weather",
   "cancel_onetime", "cancel_recurring", "help", "list"}

C37_CommandsKeepSession ==
  /\ [][(last'.op = "msg" /\ last'.branch \in CommandBranches) =>
          sessions' = sessions]_vars
  /\ [][\A a \in Addresses :
          (/\ requests' = requests + 1
           /\ inbound'.addr = a
           /\ Body(inbound'.words) \in CommandBodies
           /\ ~weatherCitySessions[a]
           /\ last'.branch # "user_error") =>
            /\ last'.branch \in CommandBranches
            /\ sessions'[a] = sessions[a]]_vars

C37_Witness ==
  /\ last.op = "msg"
  /\ last.branch = "list"
  /\ sessions[last.addr] = [stage |-> "awaiting_time", message |-> <<"call", "Mom">>]

\* C38: under a scheduler that keeps running, with time passing and, again
\* and again, a tick in which the store answers and the send succeeds, every
\* one-time reminder in the store is eventually out of the store, and then
\* it either has been sent or has just been cancelled by its owner.
C38_EventuallySentAndRemoved ==
  \A i \in 1..MaxReminders :
    (\E r \in reminders : r.id = i) ~>
      (/\ ~\E r \in reminders : r.id = i
       /\ \/ i \in delivered
          \/ last.branch = "cancel_onetime" /\ last.reply = "canceled" /\ last.target = i)

C38_Witness ==
  /\ last.op = "tick"
  /\ \E i \in last.due :
       /\ i \in delivered
       /\ attempts[i] >= 2
       /\ ~\E r \in reminders : r.id = i
  /\ last.now >= At(MonthJump + 1, 9 * 60)

\* C39: a request from one address changes, for every other address, neither
\* its Session entry nor its awaiting-city flag, nor the user row (counter
\* included), the one-time reminders, the recurring reminders or the weather
\* subscription of that address's user.
C39_AddressIsolation ==
  [][\A a, b \in Addresses :
       (requests' = requests + 1 /\ inbound'.addr = a /\ b # a) =>
         /\ sessions'[b] = sessions[b]
         /\ weatherCitySessions'[b] = weatherCitySessions[b]
         /\ users'[b] = users[b]
         /\ {r \in reminders' : r.userId = b} = {r \in reminders : r.userId = b}
         /\ {rr \in recurring' : rr.userId = b} = {rr \in recurring : rr.userId = b}
         /\ {s \in weatherSubs' : s.userId = b} = {s \in weatherSubs : s.userId = b}]_vars

C39_Witness ==
  /\ last.op = "msg"
  /\ last.addr = "a1"
  /\ last.branch = "cancel_recurring"
  /\ last.reply = "not_found"
  /\ \E rr \in recurring : rr.userId = "a2" /\ rr.id = last.target /\ rr.active
  /\ sessions["a2"] # NoSession
====
